---- MODULE Spec2Model ----
(***************************************************************************)
(* The viewport camera of shapez.io (class Camera, src/unnamed/part_001).  *)
(*                                                                         *)
(* Numbers.  The camera computes with IEEE doubles; the model computes on  *)
(* fixed grids of integers:                                                *)
(*   zoom values          in units of 1/ZoomUnit                           *)
(*   world coordinates    in units of 1/WorldUnit  (center, velocity)      *)
(*   pan vectors          in units of 1/PanUnit                            *)
(*   screen coordinates   in whole pixels                                  *)
(*   time                 in units of 1/TimeUnit ms                        *)
(* Every expression of the code is evaluated over the rationals and the    *)
(* value stored in a field is rounded to the field's grid (to nearest,     *)
(* ties away from zero).  A decay x * f with 0 < f < 1 rounds toward zero, *)
(* so that a decaying quantity has no non-zero fixpoint (a double decays   *)
(* until it underflows to 0).  The non-finite doubles are kept: a world    *)
(* coordinate is a grid integer or one of PosInf, NegInf, NaN.             *)
(***************************************************************************)
EXTENDS Integers, Sequences, FiniteSets, TLC

----------------------------------------------------------------------------
(* Grids *)
ZoomUnit == 10^5
WorldUnit == 10^2
PanUnit == 10^2
TimeUnit == 2 * 3

(* IEEE specials of a world coordinate *)
PosInf == 10^8
NegInf == 0 - 10^8
NaN == 2 * 10^8
(* the largest product a transient zoom level is computed to *)
Huge == 2 * 10^9

(* null | value *)
Null == << >>
Some(v) == << v >>
Val(o) == o[1]

Vec(x, y) == [x |-> x, y |-> y]

(* F applied to the value of x: x is computed once, as a statement of the
   code computes a local or a field once, and F continues with it *)
Then(x, F(_)) == CHOOSE r \in {F(v) : v \in {x}} : TRUE

----------------------------------------------------------------------------
(* Arithmetic *)
Abs(n) == IF n < 0 THEN 0 - n ELSE n
Min(a, b) == IF a <= b THEN a ELSE b
Max(a, b) == IF a >= b THEN a ELSE b
Sign(n) == IF n > 0 THEN 1 ELSE IF n < 0 THEN 0 - 1 ELSE 0

(* n / d to the nearest integer, ties away from zero (d > 0) *)
Round(n, d) == LET a == IF n >= 0 THEN n ELSE 0 - n
                   q == a \div d
                   r == a - q * d
                   m == IF 2 * r >= d THEN q + 1 ELSE q
               IN  IF n >= 0 THEN m ELSE 0 - m
(* n / d toward zero (d > 0) *)
Trunc(n, d) == IF n >= 0 THEN n \div d ELSE 0 - ((0 - n) \div d)

RECURSIVE SqrtIter(_, _)
SqrtIter(n, x) == Then((x + (n \div x)) \div 2,
                       LAMBDA y : IF y >= x THEN x ELSE SqrtIter(n, y))
(* floor of the square root *)
ISqrt(n) == IF n < 2 THEN n ELSE SqrtIter(n, Min(n, 46340))
(* ceiling of the square root *)
ISqrtUp(n) == Then(ISqrt(n), LAMBDA r : IF r * r = n THEN r ELSE r + 1)

IsFinite(a) == a > NegInf /\ a < PosInf

(* a + b on doubles *)
FAdd(a, b) == IF a = NaN \/ b = NaN THEN NaN
              ELSE IF a = PosInf THEN (IF b = NegInf THEN NaN ELSE PosInf)
              ELSE IF a = NegInf THEN (IF b = PosInf THEN NaN ELSE NegInf)
              ELSE IF b = PosInf \/ b = NegInf THEN b
              ELSE a + b
FNeg(a) == IF a = NaN THEN NaN ELSE IF a = PosInf THEN NegInf
           ELSE IF a = NegInf THEN PosInf ELSE 0 - a
FSub(a, b) == FAdd(a, FNeg(b))
(* a * (n / d) on doubles, n > 0, d > 0 *)
FScale(a, n, d) == IF IsFinite(a) THEN Round(a * n, d) ELSE a
(* a * k on doubles for a small integer k *)
FTimes(a, k) == IF a = NaN THEN NaN
                ELSE IF IsFinite(a) THEN a * k
                ELSE IF k = 0 THEN NaN
                ELSE IF k > 0 THEN a ELSE FNeg(a)

(* core/utils clamp *)
clamp(v, minimum, maximum) == Max(minimum, Min(maximum, v))

----------------------------------------------------------------------------
(* Vector (core/vector) *)
VAdd(a, b) == Vec(FAdd(a.x, b.x), FAdd(a.y, b.y))
(* this.direction(v): the vector from this to v *)
VDirection(a, b) == Vec(FSub(b.x, a.x), FSub(b.y, a.y))
VIsFinite(a) == IsFinite(a.x) /\ IsFinite(a.y)
(* length() squared, on the world grid; NaN and PosInf as doubles give them *)
VLengthSq(a) == IF a.x = NaN \/ a.y = NaN THEN NaN
                ELSE IF ~VIsFinite(a) THEN PosInf
                ELSE a.x * a.x + a.y * a.y
(* length() > t, for a finite t >= 0 *)
VLengthGreater(a, t) == LET s == VLengthSq(a)
                        IN  IF s = NaN THEN FALSE
                            ELSE IF s = PosInf THEN TRUE
                            ELSE s > t * t
(* a.distance(b) for screen points, in whole pixels *)
VDistance(a, b) == ISqrt((a.x - b.x) * (a.x - b.x) + (a.y - b.y) * (a.y - b.y))

----------------------------------------------------------------------------
(* Collaborators: the platform wrapper, the render surface, the config *)
MinimumZoom == 50000
MaximumZoom == 200000
TouchPanStrength == 1
gameWidth == 800
gameHeight == 600
tileSize == 32

(* Program constants *)
velocitySmoothingPct == 50
velocityFadePct == 98
velocityStrengthPct == 40
velocityMax == 20
updatesPerFrame == 4
maxDtMs == 33
zoomFadeInPct == 94
zoomFadeOutPct == 90
zoomTolerancePer10000 == 1
centeringPer1000 == 8
panMixPct == 6
shakeFadePct == 92
keyboardDivisor == 2048

(* physicsStepSizeMs = 1000 / (60 * updatesPerFrame), in time units *)
physicsStepSize == (1000 * TimeUnit) \div (60 * updatesPerFrame)

----------------------------------------------------------------------------
VARIABLES
    camera,        \* the fields of the Camera object
    keysDown,      \* the movement bindings whose currentlyDown is true
    msSinceTouch,  \* performanceNow() - clickDetectorGlobals.lastTouchTime
    opsLeft,       \* operations the run may still perform
    lastCall,      \* where calls are recorded, the last call of an event
                   \* listener: the listener, the number of touches of its
                   \* event, the signals it dispatched in order, whether it
                   \* threw, and the two listener calls before it, latest first
    listeners,     \* the listeners registered with addEventListener, each as
                   \* << target, event type, the method the listener is bound to >>
    G_IS_DEV       \* the build is a development build

vars == << camera, keysDown, msSinceTouch, opsLeft, lastCall, listeners, G_IS_DEV >>

----------------------------------------------------------------------------
(* clampZoomLevel() without the upper limit *)
clampZoomLevel_noMaximum(c) ==
    [c EXCEPT !.zoomLevel = Max(MinimumZoom, @)]

(* clampZoomLevel(), production build (G_IS_DEV false) *)
clampZoomLevel(c) ==
    LET z == clamp(c.zoomLevel, MinimumZoom, MaximumZoom)
        dz == IF c.desiredZoom # Null /\ Val(c.desiredZoom) # 0
              THEN Some(clamp(Val(c.desiredZoom), MinimumZoom, MaximumZoom))
              ELSE c.desiredZoom
    IN  [c EXCEPT !.zoomLevel = z, !.desiredZoom = dz]

(* findInitialZoom() *)
findInitialZoom ==
    LET desiredWorldSpaceWidth == 15 * tileSize
    IN  Min(Round(gameWidth * ZoomUnit, desiredWorldSpaceWidth),
            Round(gameHeight * ZoomUnit, desiredWorldSpaceWidth))

(* new Camera(root) *)
constructed ==
    clampZoomLevel(
      [ zoomLevel              |-> findInitialZoom,
        center                 |-> Vec(0, 0),
        currentlyMoving        |-> FALSE,
        lastMovingPosition     |-> Null,
        cameraUpdateTimeBucket |-> 0,
        didMoveSinceTouchStart |-> FALSE,
        currentlyPinching      |-> FALSE,
        lastPinchPositions     |-> Null,
        keyboardForce          |-> Vec(0, 0),
        currentShake           |-> Vec(0, 0),
        currentPan             |-> Vec(0, 0),
        desiredPan             |-> Vec(0, 0),
        desiredCenter          |-> Null,
        desiredZoom            |-> Null,
        touchPostMoveVelocity  |-> Vec(0, 0),
        \* not a field of the code: the channel methods the last fixed
        \* step of update() called, in the order of the calls
        channelsRun            |-> << >> ])

----------------------------------------------------------------------------
(* One fixed step of update(): the channels *)

(* 1 / zoomLevel world units, on the world grid *)
InverseZoom(z) == Round(WorldUnit * ZoomUnit, z)

(* internalUpdatePanning() without the clamp to velocityMax *)
internalUpdatePanning_unclamped(c) ==
    LET faded == Vec(Trunc(c.touchPostMoveVelocity.x * velocityFadePct, 100),
                     Trunc(c.touchPostMoveVelocity.y * velocityFadePct, 100))
        Push(v) == Vec(Round(v.x * velocityStrengthPct * TouchPanStrength, 100),
                       Round(v.y * velocityStrengthPct * TouchPanStrength, 100))
        mixed == Vec(Round(c.currentPan.x * (100 - panMixPct) + c.desiredPan.x * panMixPct, 100),
                     Round(c.currentPan.y * (100 - panMixPct) + c.desiredPan.y * panMixPct, 100))
        scaleN == physicsStepSize * ((WorldUnit * ZoomUnit) \div PanUnit)
        scaleD == 2 * TimeUnit * c.zoomLevel
        Drift(pan) == Vec(Round(pan.x * scaleN, scaleD), Round(pan.y * scaleN, scaleD))
    IN  IF ~c.currentlyMoving /\ ~c.currentlyPinching
        THEN [c EXCEPT !.touchPostMoveVelocity = faded,
                       !.currentPan = mixed,
                       !.center = VAdd(VAdd(c.center, Push(faded)), Drift(mixed))]
        ELSE [c EXCEPT !.touchPostMoveVelocity = faded]

internalUpdatePanning(c) ==
    LET faded == Vec(Trunc(c.touchPostMoveVelocity.x * velocityFadePct, 100),
                     Trunc(c.touchPostMoveVelocity.y * velocityFadePct, 100))
        limit == velocityMax * WorldUnit
        \* velocity clamped to velocityMax
        Limited(v) ==
            Then(ISqrtUp(v.x * v.x + v.y * v.y),
                 LAMBDA len : IF v.x * v.x + v.y * v.y >= limit * limit
                              THEN Vec(Trunc(v.x * limit, len), Trunc(v.y * limit, len))
                              ELSE v)
        \* velocity * baseStrength, baseStrength = velocityStrength * getTouchPanStrength()
        Push(v) == Vec(Round(v.x * velocityStrengthPct * TouchPanStrength, 100),
                       Round(v.y * velocityStrengthPct * TouchPanStrength, 100))
        mixed == Vec(Round(c.currentPan.x * (100 - panMixPct) + c.desiredPan.x * panMixPct, 100),
                     Round(c.currentPan.y * (100 - panMixPct) + c.desiredPan.y * panMixPct, 100))
        \* currentPan * (0.5 * dt / zoomLevel)
        scaleN == physicsStepSize * ((WorldUnit * ZoomUnit) \div PanUnit)
        scaleD == 2 * TimeUnit * c.zoomLevel
        Drift(pan) == Vec(Round(pan.x * scaleN, scaleD), Round(pan.y * scaleN, scaleD))
    IN  IF ~c.currentlyMoving /\ ~c.currentlyPinching
        THEN Then(Then(faded, Limited), LAMBDA vel :
             Then(Push(vel), LAMBDA push :
             Then(mixed, LAMBDA pan :
             Then(Drift(pan), LAMBDA drift :
             Then(VAdd(c.center, push), LAMBDA pushed :
                 [c EXCEPT !.touchPostMoveVelocity = vel,
                           !.currentPan = pan,
                           !.center = VAdd(pushed, drift)])))))
        ELSE [c EXCEPT !.touchPostMoveVelocity = faded]

(* internalUpdateZooming() ending the animation a hundred times too early *)
internalUpdateZooming_early(c) ==
    IF ~c.currentlyPinching /\ c.desiredZoom # Null
    THEN LET diff == c.zoomLevel - Val(c.desiredZoom)
         IN  IF Abs(diff) * 100 > zoomTolerancePer10000 * ZoomUnit
             THEN LET fade == IF diff > 0 THEN zoomFadeOutPct ELSE zoomFadeInPct
                  IN  [c EXCEPT !.zoomLevel =
                          Round(c.zoomLevel * fade + Val(c.desiredZoom) * (100 - fade), 100)]
             ELSE [c EXCEPT !.desiredZoom = Null]
    ELSE c

(* internalUpdateZooming() with the two fade factors exchanged *)
internalUpdateZooming_swapped(c) ==
    IF ~c.currentlyPinching /\ c.desiredZoom # Null
    THEN LET diff == c.zoomLevel - Val(c.desiredZoom)
         IN  IF Abs(diff) * 10000 > zoomTolerancePer10000 * ZoomUnit
             THEN LET fade == IF diff > 0 THEN zoomFadeInPct ELSE zoomFadeOutPct
                  IN  [c EXCEPT !.zoomLevel =
                          Round(c.zoomLevel * fade + Val(c.desiredZoom) * (100 - fade), 100)]
             ELSE [c EXCEPT !.desiredZoom = Null]
    ELSE c

internalUpdateZooming(c) ==
    IF ~c.currentlyPinching /\ c.desiredZoom # Null
    THEN LET diff == c.zoomLevel - Val(c.desiredZoom)
         IN  IF Abs(diff) * 10000 > zoomTolerancePer10000 * ZoomUnit
             THEN LET fade == IF diff > 0 THEN zoomFadeOutPct ELSE zoomFadeInPct
                  IN  [c EXCEPT !.zoomLevel =
                          Round(c.zoomLevel * fade + Val(c.desiredZoom) * (100 - fade), 100)]
             ELSE [c EXCEPT !.desiredZoom = Null]
    ELSE c

(* internalUpdateCentering(now, dt) that does not look at currentlyMoving *)
internalUpdateCentering_whileMoving(c) ==
    IF c.desiredCenter # Null
    THEN LET diff == VDirection(c.center, Val(c.desiredCenter))
             tolerance == InverseZoom(c.zoomLevel)
         IN  IF VLengthGreater(diff, tolerance)
             THEN LET n == Min(1000 * TimeUnit, physicsStepSize * centeringPer1000)
                      d == 1000 * TimeUnit
                      movement == Vec(FScale(diff.x, n, d), FScale(diff.y, n, d))
                  IN  [c EXCEPT !.center = VAdd(c.center, movement)]
             ELSE [c EXCEPT !.desiredCenter = Null]
    ELSE c

internalUpdateCentering(c) ==
    IF ~c.currentlyMoving /\ c.desiredCenter # Null
    THEN LET diff == VDirection(c.center, Val(c.desiredCenter))
             tolerance == InverseZoom(c.zoomLevel)
         IN  IF VLengthGreater(diff, tolerance)
             THEN LET \* Math_min(1, dt * 0.008)
                      n == Min(1000 * TimeUnit, physicsStepSize * centeringPer1000)
                      d == 1000 * TimeUnit
                      movement == Vec(FScale(diff.x, n, d), FScale(diff.y, n, d))
                  IN  [c EXCEPT !.center = VAdd(c.center, movement)]
             ELSE [c EXCEPT !.desiredCenter = Null]
    ELSE c

(* internalUpdateShake() that moves the center by the shake *)
internalUpdateShake_movesCenter(c) ==
    [c EXCEPT !.currentShake = Vec(Trunc(c.currentShake.x * shakeFadePct, 100),
                                   Trunc(c.currentShake.y * shakeFadePct, 100)),
              !.center = VAdd(c.center, c.currentShake)]

internalUpdateShake(c) ==
    [c EXCEPT !.currentShake = Vec(Trunc(c.currentShake.x * shakeFadePct, 100),
                                   Trunc(c.currentShake.y * shakeFadePct, 100))]

(* internalUpdateKeyboardForce without its guard *)
internalUpdateKeyboardForce_unguarded(c, keys) ==
    LET limitingDimension == Min(gameWidth, gameHeight)
        perZoom == Round(limitingDimension * physicsStepSize * 1000,
                         keyboardDivisor * TimeUnit)
        moveAmount == Round(perZoom * ((WorldUnit * ZoomUnit) \div 1000), c.zoomLevel)
        forceX == (IF "right" \in keys THEN 1 ELSE 0) - (IF "left" \in keys THEN 1 ELSE 0)
        forceY == (IF "down" \in keys THEN 1 ELSE 0) - (IF "up" \in keys THEN 1 ELSE 0)
    IN  [c EXCEPT !.center = Vec(FAdd(c.center.x, moveAmount * forceX),
                                 FAdd(c.center.y, moveAmount * forceY))]

internalUpdateKeyboardForce(c, keys) ==
    IF ~c.currentlyMoving /\ c.desiredCenter = Null
    THEN LET limitingDimension == Min(gameWidth, gameHeight)
             \* (limitingDimension / 2048) * dt, in 1/1000
             perZoom == Round(limitingDimension * physicsStepSize * 1000,
                              keyboardDivisor * TimeUnit)
             moveAmount == Round(perZoom * ((WorldUnit * ZoomUnit) \div 1000), c.zoomLevel)
             forceX == (IF "right" \in keys THEN 1 ELSE 0) - (IF "left" \in keys THEN 1 ELSE 0)
             forceY == (IF "down" \in keys THEN 1 ELSE 0) - (IF "up" \in keys THEN 1 ELSE 0)
         IN  [c EXCEPT !.center = Vec(FAdd(c.center.x, moveAmount * forceX),
                                      FAdd(c.center.y, moveAmount * forceY))]
    ELSE c

(* the call of a channel method returned with the camera as c *)
Ran(c, channel) == [c EXCEPT !.channelsRun = Append(@, channel)]

(* the body of the while loop of update() with the shake decay called first *)
fixedStep_shakeFirst(c, keys) ==
    Then(Then(Then(Then(Then(
        [c EXCEPT !.cameraUpdateTimeBucket = @ - physicsStepSize, !.channelsRun = << >>],
        LAMBDA x : Ran(internalUpdateShake(x), "internalUpdateShake")),
        LAMBDA x : Ran(internalUpdatePanning(x), "internalUpdatePanning")),
        LAMBDA x : Ran(internalUpdateZooming(x), "internalUpdateZooming")),
        LAMBDA x : Ran(internalUpdateCentering(x), "internalUpdateCentering")),
        LAMBDA x : Ran(internalUpdateKeyboardForce(x, keys), "internalUpdateKeyboardForce"))

(* the body of the while loop of update() *)
fixedStep(c, keys) ==
    Then(Then(Then(Then(Then(
        [c EXCEPT !.cameraUpdateTimeBucket = @ - physicsStepSize, !.channelsRun = << >>],
        LAMBDA x : Ran(internalUpdatePanning(x), "internalUpdatePanning")),
        LAMBDA x : Ran(internalUpdateZooming(x), "internalUpdateZooming")),
        LAMBDA x : Ran(internalUpdateCentering(x), "internalUpdateCentering")),
        LAMBDA x : Ran(internalUpdateShake(x), "internalUpdateShake")),
        LAMBDA x : Ran(internalUpdateKeyboardForce(x, keys), "internalUpdateKeyboardForce"))

RECURSIVE updateLoop(_, _)
updateLoop(c, keys) ==
    LET again(x) == updateLoop(x, keys)
    IN  IF c.cameraUpdateTimeBucket > physicsStepSize
        THEN Then(fixedStep(c, keys), again)
        ELSE c

(* update(dt) with dt limited to 66 ms instead of 33 *)
update_limit66(c, keys, dt) ==
    LET clamped == Min(dt, 2 * maxDtMs * TimeUnit)
        loop(x) == updateLoop(x, keys)
    IN  Then(Then([c EXCEPT !.cameraUpdateTimeBucket = @ + clamped], loop),
             clampZoomLevel)

(* update(dt), dt in time units *)
update(c, keys, dt) ==
    LET clamped == Min(dt, maxDtMs * TimeUnit)
        loop(x) == updateLoop(x, keys)
    IN  Then(Then([c EXCEPT !.cameraUpdateTimeBucket = @ + clamped], loop),
             clampZoomLevel)

----------------------------------------------------------------------------
(* The gesture handlers *)

(* checkPreventDoubleMouse() with the window closed at 1000 ms still *)
checkPreventDoubleMouse_strict(ms) == ~(ms <= 1000)

(* checkPreventDoubleMouse() *)
checkPreventDoubleMouse(ms) == ~(ms < 1000)

(* combinedSingleTouchStartHandler(x, y) that does not record the position
   of the press *)
combinedSingleTouchStartHandler_noSample(c, pos, captured) ==
    IF captured THEN c
    ELSE [c EXCEPT !.touchPostMoveVelocity = Vec(0, 0),
                   !.currentlyMoving = TRUE,
                   !.didMoveSinceTouchStart = FALSE]

(* combinedSingleTouchStartHandler(x, y); captured: the down pre-handler
   returned STOP_PROPAGATION *)
combinedSingleTouchStartHandler(c, pos, captured) ==
    IF captured THEN c
    ELSE [c EXCEPT !.touchPostMoveVelocity = Vec(0, 0),
                   !.currentlyMoving = TRUE,
                   !.lastMovingPosition = Some(pos),
                   !.didMoveSinceTouchStart = FALSE]

(* combinedSingleTouchMoveHandler(x, y); captured: the move pre-handler
   returned STOP_PROPAGATION *)
combinedSingleTouchMoveHandler(c, pos, captured) ==
    IF captured \/ ~c.currentlyMoving THEN c
    ELSE LET last == Val(c.lastMovingPosition)
             \* lastMovingPosition.sub(pos).divideScalar(zoomLevel)
             delta == Vec(Round((last.x - pos.x) * WorldUnit * ZoomUnit, c.zoomLevel),
                          Round((last.y - pos.y) * WorldUnit * ZoomUnit, c.zoomLevel))
             s == velocitySmoothingPct
         IN  [c EXCEPT !.didMoveSinceTouchStart = @ \/ delta # Vec(0, 0),
                       !.center = VAdd(c.center, delta),
                       !.touchPostMoveVelocity =
                           Vec(Round(@.x * s + delta.x * (100 - s), 100),
                               Round(@.y * s + delta.y * (100 - s), 100)),
                       !.lastMovingPosition = Some(pos),
                       !.desiredCenter = Null]

(* combinedSingleTouchStopHandler(x, y) *)
(* combinedSingleTouchStopHandler(x, y) that also stops the inertial velocity *)
combinedSingleTouchStopHandler_stops(c) ==
    IF c.currentlyMoving \/ c.currentlyPinching
    THEN [c EXCEPT !.currentlyMoving = FALSE,
                   !.currentlyPinching = FALSE,
                   !.lastMovingPosition = Null,
                   !.lastPinchPositions = Null,
                   !.didMoveSinceTouchStart = FALSE,
                   !.touchPostMoveVelocity = Vec(0, 0)]
    ELSE c

combinedSingleTouchStopHandler(c) ==
    IF c.currentlyMoving \/ c.currentlyPinching
    THEN [c EXCEPT !.currentlyMoving = FALSE,
                   !.currentlyPinching = FALSE,
                   !.lastMovingPosition = Null,
                   !.lastPinchPositions = Null,
                   !.didMoveSinceTouchStart = FALSE]
    ELSE c

(* onMouseDown(event); which: event.which *)
onMouseDown(c, ms, which, pos, captured) ==
    IF ~checkPreventDoubleMouse(ms) THEN c
    ELSE LET c1 == [c EXCEPT !.touchPostMoveVelocity = Vec(0, 0)]
         IN  IF which = 1 THEN combinedSingleTouchStartHandler(c1, pos, captured) ELSE c1

(* onMouseMove(event) *)
onMouseMove(c, ms, which, pos, captured) ==
    IF ~checkPreventDoubleMouse(ms) THEN c
    ELSE clampZoomLevel(IF which = 1 THEN combinedSingleTouchMoveHandler(c, pos, captured)
                                     ELSE c)

(* onMouseUp(event) *)
onMouseUp(c, ms) ==
    IF ~checkPreventDoubleMouse(ms) THEN c ELSE combinedSingleTouchStopHandler(c)

(* roundToPow(v, 4): 2 ^ (Math.round(Math.log2(v) * 4) / 4), by table:
   the values 2^(k/4) and the cell boundaries 2^((k + 1/2)/4), k = -8 .. 8 *)
Pow4Grid == << 25000, 29730, 35355, 42045, 50000, 59460, 70711, 84090, 100000,
               118921, 141421, 168179, 200000, 237841, 282843, 336359, 400000 >>
Pow4Bound == << 27263, 32421, 38555, 45850, 54525, 64842, 77111, 91700, 109051,
                129684, 154221, 183401, 218102, 259368, 308442, 366802, 436203 >>
roundToPow(v) ==
    LET k == CHOOSE i \in 1..Len(Pow4Grid) :
                 /\ v < Pow4Bound[i]
                 /\ \A j \in 1..(i - 1) : v >= Pow4Bound[j]
    IN  Pow4Grid[k]

(* onMouseWheel(event); sign: Math.sign(event.deltaY) *)
onMouseWheel(c, sign) ==
    LET c1 == clampZoomLevel([c EXCEPT !.zoomLevel = Round(@ * (100 - 15 * sign), 100)])
    IN  [c1 EXCEPT !.desiredZoom = Some(roundToPow(c1.zoomLevel))]

(* the two-touch branch of onTouchMove while currentlyPinching *)
pinchMove(c, new) ==
    LET last == Val(c.lastPinchPositions)
        lastDistance == VDistance(last[1], last[2])
        thisDistance == VDistance(new[1], new[2])
        \* difference = thisDistance / Math_max(0.001, lastDistance), as n / d
        n == IF lastDistance >= 1 THEN thisDistance ELSE thisDistance * 1000
        d == IF lastDistance >= 1 THEN lastDistance ELSE 1
        \* twice the old and the new center of zoom
        old2 == Vec(last[1].x + last[2].x, last[1].y + last[2].y)
        new2 == Vec(new[1].x + new[2].x, new[1].y + new[2].y)
        half == (WorldUnit * ZoomUnit) \div 2
        \* movement / zoomLevel
        moved == Vec(FAdd(c.center.x, Round((old2.x - new2.x) * half, c.zoomLevel)),
                     FAdd(c.center.y, Round((old2.y - new2.y) * half, c.zoomLevel)))
        \* twice (center - (gameWidth / 2, gameHeight / 2))
        rel2 == Vec(new2.x - gameWidth, new2.y - gameHeight)
        \* zoomLevel *= difference
        zoomed == IF d > 1 THEN Round(c.zoomLevel * n, d)
                  ELSE IF n > Huge \div c.zoomLevel THEN Huge
                  ELSE c.zoomLevel * n
        \* center.multiplyScalar(difference - 1).divideScalar(zoomLevel):
        \* (rel / z) * (1 - d / n) when the new zoomLevel is not 0, and a
        \* division by zero otherwise
        Correcture(r2) ==
            IF n = 0
            THEN (IF r2 > 0 THEN NegInf ELSE IF r2 < 0 THEN PosInf ELSE NaN)
            ELSE LET t == Round(r2 * half, c.zoomLevel)
                 IN  t - Round(t * d, n)
        correcture == Vec(Correcture(rel2.x), Correcture(rel2.y))
    IN  [c EXCEPT !.zoomLevel = zoomed,
                  !.center = VAdd(moved, correcture),
                  !.lastPinchPositions = Some(new),
                  !.desiredZoom = IF @ # Null /\ Val(@) # 0 THEN Null ELSE @]

(* onTouchStart(event) whose two-touch branch leaves currentlyMoving alone *)
onTouchStart_keepsMoving(c, touches, captured) ==
    LET c1 == [c EXCEPT !.touchPostMoveVelocity = Vec(0, 0)]
    IN  IF Len(touches) = 1
        THEN combinedSingleTouchStartHandler(c1, touches[1], captured)
        ELSE IF Len(touches) = 2
        THEN [c1 EXCEPT !.currentlyPinching = TRUE,
                        !.lastPinchPositions = Some(touches)]
        ELSE c1

(* onTouchStart(event); touches: event.touches as a sequence of points *)
onTouchStart(c, touches, captured) ==
    LET c1 == [c EXCEPT !.touchPostMoveVelocity = Vec(0, 0)]
    IN  IF Len(touches) = 1
        THEN combinedSingleTouchStartHandler(c1, touches[1], captured)
        ELSE IF Len(touches) = 2
        THEN [c1 EXCEPT !.currentlyMoving = FALSE,
                        !.currentlyPinching = TRUE,
                        !.lastPinchPositions = Some(touches)]
        ELSE c1

(* onTouchMove(event) without "Clamp everything afterwards" *)
onTouchMove_unclamped(c, touches, captured) ==
    IF Len(touches) = 1
    THEN combinedSingleTouchMoveHandler(c, touches[1], captured)
    ELSE IF Len(touches) = 2 /\ c.currentlyPinching
    THEN pinchMove(c, touches)
    ELSE c

(* onTouchMove(event) *)
onTouchMove(c, touches, captured) ==
    clampZoomLevel(
        IF Len(touches) = 1
        THEN combinedSingleTouchMoveHandler(c, touches[1], captured)
        ELSE IF Len(touches) = 2 /\ c.currentlyPinching
        THEN pinchMove(c, touches)
        ELSE c)

(* onTouchEnd(event); changedTouches: event.changedTouches.length.  With no
   changed touch, event.changedTouches[0] is undefined and reading its
   clientX throws before the stop handler is called *)
onTouchEnd_throws(changedTouches) == changedTouches = 0

onTouchEnd(c, changedTouches) ==
    IF onTouchEnd_throws(changedTouches) THEN c ELSE combinedSingleTouchStopHandler(c)

----------------------------------------------------------------------------
(* The signals the gesture handlers dispatch, in the order of the calls *)

combinedSingleTouchStartHandler_dispatches(c, pos, captured) == << "downPreHandler" >>

combinedSingleTouchMoveHandler_dispatches(c, pos, captured) ==
    << "movePreHandler" >>
    \o (IF captured \/ ~c.currentlyMoving THEN << >> ELSE << "USER_INTERACT_MOVE" >>)

combinedSingleTouchStopHandler_dispatches(c) ==
    (IF c.currentlyMoving \/ c.currentlyPinching THEN << "USER_INTERACT_TOUCHEND" >> ELSE << >>)
    \o << "upPostHandler" >>

onMouseDown_dispatches(c, ms, which, pos, captured) ==
    IF ~checkPreventDoubleMouse(ms) THEN << >>
    ELSE IF which = 1 THEN combinedSingleTouchStartHandler_dispatches(c, pos, captured)
    ELSE IF which = 2 \/ which = 3 THEN << "downPreHandler" >>
    ELSE << >>

onMouseMove_dispatches(c, ms, which, pos, captured) ==
    IF ~checkPreventDoubleMouse(ms) THEN << >>
    ELSE IF which = 1 THEN combinedSingleTouchMoveHandler_dispatches(c, pos, captured)
    ELSE << >>

onMouseUp_dispatches(c, ms) ==
    IF ~checkPreventDoubleMouse(ms) THEN << >> ELSE combinedSingleTouchStopHandler_dispatches(c)

onTouchStart_dispatches(c, touches, captured) ==
    IF Len(touches) = 1
    THEN combinedSingleTouchStartHandler_dispatches(c, touches[1], captured)
    ELSE << >>

onTouchMove_dispatches(c, touches, captured) ==
    IF Len(touches) = 1
    THEN combinedSingleTouchMoveHandler_dispatches(c, touches[1], captured)
    ELSE IF Len(touches) = 2 /\ c.currentlyPinching
    THEN << "USER_INTERACT_MOVE" >>
    ELSE << >>

onTouchEnd_dispatches(c, changedTouches) ==
    IF onTouchEnd_throws(changedTouches) THEN << >>
    ELSE combinedSingleTouchStopHandler_dispatches(c)

----------------------------------------------------------------------------
(* The programmatic requests *)

(* isCurrentlyInteracting(); lengthSquare() > 1 is in world units *)
isCurrentlyInteracting(c) ==
    IF c.currentlyPinching THEN TRUE
    ELSE IF c.currentlyMoving THEN c.didMoveSinceTouchStart
    ELSE VLengthGreater(c.touchPostMoveVelocity, WorldUnit)

(* viewportWillChange() *)
viewportWillChange(c) ==
    c.desiredCenter # Null \/ c.desiredZoom # Null \/ isCurrentlyInteracting(c)

(* setDesiredCenter(center) without the assignment to currentlyMoving *)
setDesiredCenter_keepsMoving(c, p) == [c EXCEPT !.desiredCenter = Some(p)]

setDesiredCenter(c, p) == [c EXCEPT !.desiredCenter = Some(p), !.currentlyMoving = FALSE]

centerOnMap(c) == [c EXCEPT !.desiredCenter = Some(Vec(0, 0))]

setPan(c, pan) == [c EXCEPT !.desiredPan = pan]

(* clearAnimations() without the reset of currentPan *)
clearAnimations_keepsPan(c) ==
    [c EXCEPT !.touchPostMoveVelocity = Vec(0, 0),
              !.desiredCenter = Null,
              !.desiredPan = Vec(0, 0),
              !.currentlyPinching = FALSE,
              !.currentlyMoving = FALSE,
              !.lastMovingPosition = Null,
              !.didMoveSinceTouchStart = FALSE,
              !.desiredZoom = Null]

clearAnimations(c) ==
    [c EXCEPT !.touchPostMoveVelocity = Vec(0, 0),
              !.desiredCenter = Null,
              !.desiredPan = Vec(0, 0),
              !.currentPan = Vec(0, 0),
              !.currentlyPinching = FALSE,
              !.currentlyMoving = FALSE,
              !.lastMovingPosition = Null,
              !.didMoveSinceTouchStart = FALSE,
              !.desiredZoom = Null]

cancelAllInteractions(c) ==
    [c EXCEPT !.touchPostMoveVelocity = Vec(0, 0),
              !.desiredCenter = Null,
              !.currentlyMoving = FALSE,
              !.currentlyPinching = FALSE,
              !.desiredZoom = Null]

(* the mapZoomIn / mapZoomOut bindings of bindKeys(); pct: 120 or 80 *)
zoomKey(c, pct) == [c EXCEPT !.desiredZoom = Some(roundToPow(Round(c.zoomLevel * pct, 100)))]

(* the mapMove* bindings of bindKeys() *)
moveKey(c, key) ==
    [c EXCEPT !.keyboardForce =
        IF key = "up" THEN Vec(@.x, 0 - 1)
        ELSE IF key = "down" THEN Vec(@.x, 1)
        ELSE IF key = "right" THEN Vec(1, @.y)
        ELSE Vec(0 - 1, @.y)]

(* screenToWorld(screen), for a screen point in whole pixels *)
screenToWorld(c, screen) ==
    Vec(FAdd(Round((2 * screen.x - gameWidth) * ((WorldUnit * ZoomUnit) \div 2), c.zoomLevel),
             c.center.x),
        FAdd(Round((2 * screen.y - gameHeight) * ((WorldUnit * ZoomUnit) \div 2), c.zoomLevel),
             c.center.y))

(* a * zoomLevel on doubles for a on the world grid, z > 0; the product is
   formed in two parts so that every intermediate stays small *)
FTimesZoom(a, z) ==
    IF ~IsFinite(a) THEN a
    ELSE LET m == Abs(a)
             high == m * (z \div 1000)
             v == (high \div 100) + Round((high % 100) * 1000 + m * (z % 1000), ZoomUnit)
         IN  IF a >= 0 THEN v ELSE 0 - v

(* a / zoomLevel on doubles for a in 1/WorldUnit pixels, z > 0; the quotient
   on the world grid, by long division *)
FOverZoom(a, z) ==
    IF ~IsFinite(a) THEN a
    ELSE LET m == Abs(a) * 1000
             v == (m \div z) * 100 + Round((m % z) * 100, z)
         IN  IF a >= 0 THEN v ELSE 0 - v

(* worldToScreen(world); the screen point in 1/WorldUnit pixels *)
worldToScreen(c, world) ==
    Vec(FAdd(FTimesZoom(FSub(world.x, c.center.x), c.zoomLevel), (gameWidth * WorldUnit) \div 2),
        FAdd(FTimesZoom(FSub(world.y, c.center.y), c.zoomLevel), (gameHeight * WorldUnit) \div 2))

(* screenToWorld(screen), for a screen point in 1/WorldUnit pixels *)
screenToWorldAt(c, screen) ==
    Vec(FAdd(FOverZoom(FSub(screen.x, (gameWidth * WorldUnit) \div 2), c.zoomLevel), c.center.x),
        FAdd(FOverZoom(FSub(screen.y, (gameHeight * WorldUnit) \div 2), c.zoomLevel), c.center.y))

(* transform(context), as far as the camera is concerned: the call of
   clampZoomLevel() that precedes the scaling of the context *)
transform(c) == clampZoomLevel(c)

(* core/builtins Math_floor and Math_ceil, of a world coordinate *)
Math_floor(a) ==
    IF ~IsFinite(a) THEN a
    ELSE IF a >= 0 THEN (a \div WorldUnit) * WorldUnit
    ELSE 0 - (((0 - a) + WorldUnit - 1) \div WorldUnit) * WorldUnit
Math_ceil(a) == FNeg(Math_floor(FNeg(a)))

getViewportWidth(c) == FOverZoom(gameWidth * WorldUnit, c.zoomLevel)
getViewportHeight(c) == FOverZoom(gameHeight * WorldUnit, c.zoomLevel)

(* (currentShake.x * 10) / zoomLevel; currentShake is in 1/WorldUnit *)
shakeOffset(c) == FOverZoom(c.currentShake.x * 10, c.zoomLevel)

getViewportLeft(c) ==
    FAdd(FSub(c.center.x, Round(getViewportWidth(c), 2)), shakeOffset(c))
getViewportRight(c) ==
    FAdd(FAdd(c.center.x, Round(getViewportWidth(c), 2)), shakeOffset(c))
getViewportTop(c) ==
    FAdd(FSub(c.center.y, Round(getViewportHeight(c), 2)), shakeOffset(c))
getViewportBottom(c) ==
    FAdd(FAdd(c.center.y, Round(getViewportHeight(c), 2)), shakeOffset(c))

(* getVisibleRect() with Math.round for every edge *)
getVisibleRect_rounded(c) ==
    [top |-> Math_floor(FAdd(getViewportTop(c), WorldUnit \div 2)),
     right |-> Math_floor(FAdd(getViewportRight(c), WorldUnit \div 2)),
     bottom |-> Math_floor(FAdd(getViewportBottom(c), WorldUnit \div 2)),
     left |-> Math_floor(FAdd(getViewportLeft(c), WorldUnit \div 2))]

(* getVisibleRect(): Rectangle.fromTRBL of the four edges *)
getVisibleRect(c) ==
    [top |-> Math_floor(getViewportTop(c)),
     right |-> Math_ceil(getViewportRight(c)),
     bottom |-> Math_ceil(getViewportBottom(c)),
     left |-> Math_floor(getViewportLeft(c))]

(* where the context maps a world point after transform(context):
   context.transform(zoom, 0, 0, zoom, e, f) takes (x, y) to
   (zoom * x + e, zoom * y + f); the result is in 1/WorldUnit pixels *)
transformed(c, world) ==
    LET d == transform(c)
        zoom == d.zoomLevel
        e == FNeg(FTimesZoom(getViewportLeft(d), zoom))
        f == FNeg(FTimesZoom(getViewportTop(d), zoom))
    IN  Vec(FAdd(FTimesZoom(world.x, zoom), e), FAdd(FTimesZoom(world.y, zoom), f))

(* addScreenShake(amount); random1 and random2 are the two values of
   Math_random(), in quarters *)
addScreenShake(c, amount, random1, random2) ==
    LET currentShakeAmount == ISqrt(VLengthSq(c.currentShake))
        \* 2 * (random - 0.5) * scale * amount, scale = 1 / (1 + 3 * currentShakeAmount)
        Offset(random) == Round((random - 2) * amount * WorldUnit * WorldUnit,
                                2 * (WorldUnit + 3 * currentShakeAmount))
    IN  [c EXCEPT !.currentShake = Vec(c.currentShake.x + Offset(random1),
                                       c.currentShake.y + Offset(random2))]

(* deserialize(data): super.deserialize stores the two persisted fields, or
   reports an error and stores nothing *)
deserialize(c, data, ok) ==
    IF ~ok THEN c
    ELSE clampZoomLevel([c EXCEPT !.zoomLevel = data.zoomLevel, !.center = data.center])

----------------------------------------------------------------------------
(* Bounds and the inputs the operations are tried with *)
MaxOps == 4
CenterLimit == 200

Keys == {"up", "down", "left", "right"}
ScreenPoints == {Vec(400, 300), Vec(360, 300), Vec(400, 330)}
PinchPairs == { << Vec(100, 300), Vec(300, 300) >>,
                << Vec(150, 300), Vec(250, 300) >>,
                << Vec(200, 300), Vec(200, 300) >>,
                << Vec(300, 300), Vec(500, 300) >> }
Targets == {Vec(60 * WorldUnit, 0), Vec(30 * WorldUnit, 40 * WorldUnit)}
Pans == {Vec(0, 0), Vec(PanUnit, 0)}
SavedZooms == {0, ZoomUnit, 5 * ZoomUnit}
SavedCenters == {Vec(0, 0), Vec(60 * WorldUnit, 0)}
Dts == {0, physicsStepSize, 100, 1000 * TimeUnit}

(* a finite coordinate stays within the modelled part of the world *)
InWorld(a) == ~IsFinite(a) \/ Abs(a) <= CenterLimit * WorldUnit

Bounded(c) == InWorld(c.center.x) /\ InWorld(c.center.y)

(* an operation returns with the camera as c *)
Returns(c) ==
    /\ opsLeft > 0
    /\ Bounded(c)
    /\ camera' = c
    /\ opsLeft' = opsLeft - 1

(* internalInitEvents(): the listeners attached to root.canvas *)
internalInitEvents ==
    { << "canvas", "touchstart", "onTouchStart" >>,
      << "canvas", "touchend", "onTouchEnd" >>,
      << "canvas", "touchcancel", "onTouchEnd" >>,
      << "canvas", "touchmove", "onTouchMove" >>,
      << "canvas", "wheel", "onMouseWheel" >>,
      << "canvas", "mousedown", "onMouseDown" >>,
      << "canvas", "mousemove", "onMouseMove" >>,
      << "canvas", "mouseup", "onMouseUp" >>,
      << "canvas", "mouseout", "onMouseUp" >> }

(* the listeners registered when new Camera(root) returns; dev: G_IS_DEV *)
constructedListeners(dev) ==
    internalInitEvents \cup (IF dev THEN { << "window", "keydown", "ev => {}" >> } ELSE {})

(* cleanup(): removeEventListener with the target, type and listener of
   each call *)
cleanup(registered) ==
    registered \ { << "canvas", "touchstart", "onTouchStart" >>,
                   << "canvas", "touchend", "onTouchEnd" >>,
                   << "canvas", "touchcancel", "onTouchEnd" >>,
                   << "canvas", "touchmove", "onTouchMove" >>,
                   << "canvas", "wheel", "onMouseWheel" >>,
                   << "canvas", "mousedown", "onMouseDown" >>,
                   << "canvas", "mousemove", "onMouseMove" >>,
                   << "canvas", "mouseup", "onMouseUp" >>,
                   << "canvas", "mouseout", "onMouseUp" >> }

(* the keydown listener of the development build; key: ev.key *)
devKeyDown(c, key) == IF key = "l" THEN [c EXCEPT !.zoomLevel = 3 * ZoomUnit] ELSE c

(* no event listener has been called *)
NoCall == [op |-> "none", touches |-> 0, dispatched |-> << >>, threw |-> FALSE, before |-> << >>]

Init ==
    /\ camera = constructed
    /\ keysDown = {}
    /\ msSinceTouch = 1000
    /\ opsLeft = MaxOps
    /\ lastCall = NoCall
    /\ G_IS_DEV = FALSE
    /\ listeners = constructedListeners(G_IS_DEV)

MouseDown ==
    \E which \in {1, 3}, pos \in ScreenPoints, captured \in BOOLEAN :
        /\ Returns(onMouseDown(camera, msSinceTouch, which, pos, captured))
        /\ UNCHANGED << lastCall, listeners, G_IS_DEV >>
        /\ UNCHANGED << keysDown, msSinceTouch >>

MouseMove ==
    \E which \in {0, 1}, pos \in ScreenPoints, captured \in BOOLEAN :
        /\ Returns(onMouseMove(camera, msSinceTouch, which, pos, captured))
        /\ UNCHANGED << lastCall, listeners, G_IS_DEV >>
        /\ UNCHANGED << keysDown, msSinceTouch >>

MouseUp ==
    /\ Returns(onMouseUp(camera, msSinceTouch))
    /\ UNCHANGED << lastCall, listeners, G_IS_DEV >>
    /\ UNCHANGED << keysDown, msSinceTouch >>

MouseWheel ==
    \E sign \in {0 - 1, 0, 1} :
        /\ Returns(onMouseWheel(camera, sign))
        /\ UNCHANGED << lastCall, listeners, G_IS_DEV >>
        /\ UNCHANGED << keysDown, msSinceTouch >>

TouchStart ==
    \E touches \in {<< p >> : p \in ScreenPoints} \cup PinchPairs, captured \in BOOLEAN :
        /\ Returns(onTouchStart(camera, touches, captured))
        /\ UNCHANGED << lastCall, listeners, G_IS_DEV >>
        /\ msSinceTouch' = 0
        /\ UNCHANGED keysDown

TouchMove ==
    \E touches \in {<< p >> : p \in ScreenPoints} \cup PinchPairs, captured \in BOOLEAN :
        /\ Returns(onTouchMove(camera, touches, captured))
        /\ UNCHANGED << lastCall, listeners, G_IS_DEV >>
        /\ msSinceTouch' = 0
        /\ UNCHANGED keysDown

TouchEnd ==
    \E changedTouches \in {0, 1} :
        /\ Returns(onTouchEnd(camera, changedTouches))
        /\ UNCHANGED << lastCall, listeners, G_IS_DEV >>
        /\ msSinceTouch' = 0
        /\ UNCHANGED keysDown

(* the renderer prepares the context *)
Transform ==
    /\ Returns(transform(camera))
    /\ UNCHANGED << lastCall, listeners, G_IS_DEV >>
    /\ UNCHANGED << keysDown, msSinceTouch >>

(* getVisibleRect(), screenToWorld(), worldToScreen() or isWorldPointOnScreen()
   is called: each computes its value from the fields and assigns none *)
Query ==
    /\ Returns(camera)
    /\ UNCHANGED << lastCall, listeners, G_IS_DEV >>
    /\ UNCHANGED << keysDown, msSinceTouch >>

SetDesiredCenter ==
    \E p \in Targets :
        /\ Returns(setDesiredCenter(camera, p))
        /\ UNCHANGED << lastCall, listeners, G_IS_DEV >>
        /\ UNCHANGED << keysDown, msSinceTouch >>

CenterOnMap ==
    /\ Returns(centerOnMap(camera))
    /\ UNCHANGED << lastCall, listeners, G_IS_DEV >>
    /\ UNCHANGED << keysDown, msSinceTouch >>

SetPan ==
    \E pan \in Pans :
        /\ Returns(setPan(camera, pan))
        /\ UNCHANGED << lastCall, listeners, G_IS_DEV >>
        /\ UNCHANGED << keysDown, msSinceTouch >>

ClearAnimations ==
    /\ Returns(clearAnimations(camera))
    /\ UNCHANGED << lastCall, listeners, G_IS_DEV >>
    /\ UNCHANGED << keysDown, msSinceTouch >>

CancelAllInteractions ==
    /\ Returns(cancelAllInteractions(camera))
    /\ UNCHANGED << lastCall, listeners, G_IS_DEV >>
    /\ UNCHANGED << keysDown, msSinceTouch >>

ZoomKey ==
    \E pct \in {120, 80} :
        /\ Returns(zoomKey(camera, pct))
        /\ UNCHANGED << lastCall, listeners, G_IS_DEV >>
        /\ UNCHANGED << keysDown, msSinceTouch >>

KeyPress ==
    \E key \in Keys \ keysDown :
        /\ Returns(moveKey(camera, key))
        /\ UNCHANGED << lastCall, listeners, G_IS_DEV >>
        /\ keysDown' = keysDown \cup {key}
        /\ UNCHANGED msSinceTouch

KeyRelease ==
    \E key \in keysDown :
        /\ Returns(camera)
        /\ UNCHANGED << lastCall, listeners, G_IS_DEV >>
        /\ keysDown' = keysDown \ {key}
        /\ UNCHANGED msSinceTouch

Deserialize ==
    \E z \in SavedZooms, p \in SavedCenters, ok \in BOOLEAN :
        /\ Returns(deserialize(camera, [zoomLevel |-> z, center |-> p], ok))
        /\ UNCHANGED << lastCall, listeners, G_IS_DEV >>
        /\ UNCHANGED << keysDown, msSinceTouch >>

(* the clock passes the guard window of checkPreventDoubleMouse *)
TimePasses ==
    /\ msSinceTouch < 1000
    /\ Returns(camera)
    /\ UNCHANGED << lastCall, listeners, G_IS_DEV >>
    /\ msSinceTouch' = IF msSinceTouch < 999 THEN 999 ELSE 1000
    /\ UNCHANGED keysDown

Update ==
    \E dt \in Dts :
        /\ Returns(update(camera, keysDown, dt))
        /\ UNCHANGED << lastCall, listeners, G_IS_DEV >>
        /\ UNCHANGED << keysDown, msSinceTouch >>

Next ==
    \/ MouseDown \/ MouseMove \/ MouseUp \/ MouseWheel
    \/ TouchStart \/ TouchMove \/ TouchEnd
    \/ SetDesiredCenter \/ CenterOnMap \/ SetPan
    \/ ClearAnimations \/ CancelAllInteractions
    \/ ZoomKey \/ KeyPress \/ KeyRelease
    \/ Deserialize \/ TimePasses \/ Update
    \/ Transform \/ Query

Spec == Init /\ [][Next]_vars

----------------------------------------------------------------------------
(* The camera driven by programmatic requests, key bindings and frames     *)
(* only: no pointer or touch event arrives.                                *)
NextRequests ==
    \/ SetDesiredCenter \/ CenterOnMap \/ SetPan
    \/ ZoomKey \/ KeyPress \/ KeyRelease
    \/ Update

SpecRequests == Init /\ [][NextRequests]_vars

(* Gestures, requests and frames with calls of clearAnimations() between them *)
NextClear ==
    \/ MouseDown \/ MouseMove \/ TouchStart \/ TouchMove
    \/ SetDesiredCenter \/ SetPan \/ ZoomKey
    \/ ClearAnimations \/ Update

SpecClear == Init /\ [][NextClear]_vars

(* Mouse and touch gestures from press to release with calls of
   setDesiredCenter(), clearAnimations() and cancelAllInteractions() between
   their events *)
NextGesture ==
    \/ MouseDown \/ MouseMove \/ MouseUp
    \/ TouchStart \/ TouchMove \/ TouchEnd
    \/ SetDesiredCenter \/ ClearAnimations \/ CancelAllInteractions

SpecGesture == Init /\ [][NextGesture]_vars

(* Frames during a drag: the camera starts with or without a pan set by
   setPan() and with or without the mapMoveRight key held; presses, drag
   moves, setPan(), centerOnMap(), the movement keys and update() follow *)
InitFrames ==
    /\ \E pan \in Pans, held \in {{}, {"right"}} :
          /\ keysDown = held
          /\ camera = IF held = {} THEN setPan(constructed, pan)
                      ELSE moveKey(setPan(constructed, pan), "right")
    /\ msSinceTouch = 1000
    /\ opsLeft = MaxOps
    /\ lastCall = NoCall
    /\ G_IS_DEV = FALSE
    /\ listeners = constructedListeners(G_IS_DEV)

NextFrames ==
    \/ MouseDown \/ MouseMove \/ TouchStart
    \/ SetPan \/ CenterOnMap
    \/ KeyPress \/ KeyRelease
    \/ Update

SpecFrames == InitFrames /\ [][NextFrames]_vars

(* The movement keys held during a mouse drag or a centering *)
NextKeys ==
    \/ MouseDown \/ MouseUp \/ SetDesiredCenter
    \/ KeyPress \/ KeyRelease
    \/ Update

SpecKeys == Init /\ [][NextKeys]_vars

----------------------------------------------------------------------------
(* The event listeners of internalInitEvents(), each call recorded with    *)
(* what it dispatched and how it ended.  mouseout is bound to onMouseUp    *)
(* and touchcancel to onTouchEnd.                                          *)

(* the listener op was called and returned, or threw *)
Called(op, touches, dispatched, threw) ==
    /\ \E l \in listeners : l[3] = op
    /\ UNCHANGED << listeners, G_IS_DEV >>
    /\ lastCall' = [op |-> op, touches |-> touches, dispatched |-> dispatched, threw |-> threw,
                 before |-> IF lastCall.op = "none" THEN << >>
                            ELSE << << lastCall.op, lastCall.touches >> >>
                                 \o SubSeq(lastCall.before, 1, Min(1, Len(lastCall.before)))]

MouseDownCalled ==
    \E which \in {1, 3}, pos \in ScreenPoints, captured \in BOOLEAN :
        /\ Returns(onMouseDown(camera, msSinceTouch, which, pos, captured))
        /\ Called("onMouseDown", 0,
                  onMouseDown_dispatches(camera, msSinceTouch, which, pos, captured), FALSE)
        /\ UNCHANGED << keysDown, msSinceTouch >>

MouseMoveCalled ==
    \E which \in {0, 1}, pos \in ScreenPoints, captured \in BOOLEAN :
        /\ Returns(onMouseMove(camera, msSinceTouch, which, pos, captured))
        /\ Called("onMouseMove", 0,
                  onMouseMove_dispatches(camera, msSinceTouch, which, pos, captured), FALSE)
        /\ UNCHANGED << keysDown, msSinceTouch >>

MouseUpCalled ==
    /\ Returns(onMouseUp(camera, msSinceTouch))
    /\ Called("onMouseUp", 0, onMouseUp_dispatches(camera, msSinceTouch), FALSE)
    /\ UNCHANGED << keysDown, msSinceTouch >>

MouseWheelCalled ==
    \E sign \in {0 - 1, 0, 1} :
        /\ Returns(onMouseWheel(camera, sign))
        /\ Called("onMouseWheel", 0, << >>, FALSE)
        /\ UNCHANGED << keysDown, msSinceTouch >>

TouchStartCalled ==
    \E touches \in {<< p >> : p \in ScreenPoints} \cup PinchPairs, captured \in BOOLEAN :
        /\ Returns(onTouchStart(camera, touches, captured))
        /\ Called("onTouchStart", Len(touches),
                  onTouchStart_dispatches(camera, touches, captured), FALSE)
        /\ msSinceTouch' = 0
        /\ UNCHANGED keysDown

TouchMoveCalled ==
    \E touches \in {<< p >> : p \in ScreenPoints} \cup PinchPairs, captured \in BOOLEAN :
        /\ Returns(onTouchMove(camera, touches, captured))
        /\ Called("onTouchMove", Len(touches),
                  onTouchMove_dispatches(camera, touches, captured), FALSE)
        /\ msSinceTouch' = 0
        /\ UNCHANGED keysDown

TouchEndCalled ==
    \E changedTouches \in {0, 1} :
        /\ Returns(onTouchEnd(camera, changedTouches))
        /\ Called("onTouchEnd", changedTouches,
                  onTouchEnd_dispatches(camera, changedTouches),
                  onTouchEnd_throws(changedTouches))
        /\ msSinceTouch' = 0
        /\ UNCHANGED keysDown

NextListeners ==
    \/ MouseDownCalled \/ MouseMoveCalled \/ MouseUpCalled \/ MouseWheelCalled
    \/ TouchStartCalled \/ TouchMoveCalled \/ TouchEndCalled
    \/ TimePasses

SpecListeners == Init /\ [][NextListeners]_vars

(* The drag and pinch listeners with calls of setDesiredCenter() between
   their events *)
NextDrag ==
    \/ MouseDownCalled \/ MouseMoveCalled \/ MouseUpCalled
    \/ TouchStartCalled \/ TouchMoveCalled \/ TouchEndCalled
    \/ TimePasses \/ SetDesiredCenter

SpecDrag == Init /\ [][NextDrag]_vars

(* The camera's life in either build: the events the registered listeners
   receive, and cleanup() *)
InitLifecycle ==
    /\ camera = constructed
    /\ keysDown = {}
    /\ msSinceTouch = 1000
    /\ opsLeft = MaxOps
    /\ lastCall = NoCall
    /\ G_IS_DEV \in BOOLEAN
    /\ listeners = constructedListeners(G_IS_DEV)

Cleanup ==
    /\ Returns(camera)
    /\ listeners' = cleanup(listeners)
    /\ UNCHANGED << keysDown, msSinceTouch, lastCall, G_IS_DEV >>

WindowKeyDown ==
    \E key \in {"l", "k"} :
        /\ \E l \in listeners : l[1] = "window" /\ l[2] = "keydown"
        /\ Returns(devKeyDown(camera, key))
        /\ UNCHANGED << keysDown, msSinceTouch, lastCall, listeners, G_IS_DEV >>

NextLifecycle == NextListeners \/ Cleanup \/ WindowKeyDown

SpecLifecycle == InitLifecycle /\ [][NextLifecycle]_vars

----------------------------------------------------------------------------
(* The host calls update() once per frame.  The two specifications below   *)
(* start from a camera on which programmatic requests were just made and   *)
(* let only frames pass; a frame with dt > 0 keeps coming.                 *)

(* frame times: none, one fixed step, 1/60 s, 17.5 ms *)
FrameDts == {0, physicsStepSize, 100, 105}

Frame ==
    \E dt \in FrameDts : \E c \in {update(camera, keysDown, dt)} :
        /\ Bounded(c)
        /\ camera' = c
        /\ UNCHANGED << lastCall, listeners, G_IS_DEV >>
        /\ UNCHANGED << keysDown, msSinceTouch, opsLeft >>

FramePositive ==
    \E dt \in FrameDts \ {0} : \E c \in {update(camera, keysDown, dt)} :
        /\ Bounded(c)
        /\ camera' = c
        /\ UNCHANGED << lastCall, listeners, G_IS_DEV >>
        /\ UNCHANGED << keysDown, msSinceTouch, opsLeft >>

(* the camera of a loaded savegame *)
Loaded == {deserialize(constructed, [zoomLevel |-> z, center |-> p], TRUE) :
              z \in SavedZooms, p \in SavedCenters}

(* ... on which a zoom was requested, possibly during a pinch *)
ZoomRequested ==
    LET bases == Loaded \cup {onTouchStart(c, << Vec(150, 300), Vec(250, 300) >>, FALSE) :
                                 c \in Loaded}
    IN  {onMouseWheel(c, sign) : c \in bases, sign \in {0 - 1, 0, 1}}
        \cup {zoomKey(c, pct) : c \in bases, pct \in {120, 80}}

InitZoom ==
    /\ camera \in ZoomRequested
    /\ keysDown = {}
    /\ msSinceTouch = 1000
    /\ opsLeft = 0
    /\ lastCall = NoCall
    /\ G_IS_DEV = FALSE
    /\ listeners = constructedListeners(G_IS_DEV)

SpecZoom == InitZoom /\ [][Frame]_vars /\ WF_vars(FramePositive)

(* the camera after a pinch whose touch points came to coincide *)
Pinched == {onTouchEnd(onTouchMove(onTouchStart(c, << Vec(100, 300), Vec(300, 300) >>, FALSE),
                                   << Vec(200, 300), Vec(200, 300) >>, FALSE), 1) :
               c \in Loaded}

(* ... on which a centering was requested, with or without a pan *)
CenterRequested ==
    {setDesiredCenter(setPan(c, pan), p) : c \in Loaded \cup Pinched, pan \in Pans, p \in Targets}

InitCenter ==
    /\ camera \in CenterRequested
    /\ keysDown = {}
    /\ msSinceTouch = 1000
    /\ opsLeft = 0
    /\ lastCall = NoCall
    /\ G_IS_DEV = FALSE
    /\ listeners = constructedListeners(G_IS_DEV)

SpecCenter == InitCenter /\ [][Frame]_vars /\ WF_vars(FramePositive)

(* A loaded camera that is dragged with the mouse, pinched and released,
   with frames between the events *)
InitInertia ==
    /\ camera \in {constructed} \cup Loaded
    /\ keysDown = {}
    /\ msSinceTouch = 1000
    /\ opsLeft = MaxOps
    /\ lastCall = NoCall
    /\ G_IS_DEV = FALSE
    /\ listeners = constructedListeners(G_IS_DEV)

NextInertia == MouseDown \/ MouseMove \/ MouseUp \/ TouchStart \/ Update

SpecInertia == InitInertia /\ [][NextInertia]_vars

(* The renderer's view of a loaded camera that is shaken: addScreenShake(),
   update(), transform() and the queries *)
ShakeAmounts == {2}
Randoms == {0, 3}

AddScreenShake ==
    \E amount \in ShakeAmounts, random1 \in Randoms, random2 \in Randoms :
        /\ Returns(addScreenShake(camera, amount, random1, random2))
        /\ UNCHANGED << keysDown, msSinceTouch, lastCall, listeners, G_IS_DEV >>

InitViewport ==
    /\ camera \in {constructed} \cup Loaded \cup Pinched
    /\ keysDown = {}
    /\ msSinceTouch = 1000
    /\ opsLeft = MaxOps
    /\ lastCall = NoCall
    /\ G_IS_DEV = FALSE
    /\ listeners = constructedListeners(G_IS_DEV)

NextViewport == AddScreenShake \/ Update \/ Transform \/ Query

SpecViewport == InitViewport /\ [][NextViewport]_vars

(* The camera shaken between mouse drags, wheel zooms, centering requests
   and frames *)
NextShake ==
    \/ AddScreenShake \/ Update
    \/ MouseDown \/ MouseMove \/ MouseWheel
    \/ SetDesiredCenter

SpecShake == Init /\ [][NextShake]_vars

----------------------------------------------------------------------------
(* Notions the properties below are stated with *)

(* |a - b| <= t as doubles compare it: false when a coordinate is not finite *)
VWithin(a, b, t) ==
    /\ VIsFinite(a) /\ VIsFinite(b)
    /\ VLengthSq(VDirection(a, b)) <= t * t

(* v lies between a and b *)
Between(v, a, b) == (a <= v /\ v <= b) \/ (b <= v /\ v <= a)

(* the two touch points of a pair are the same point *)
Coincide(pair) == pair[1] = pair[2]

(* the midpoint of a pair of touch points (the pairs tried have whole midpoints) *)
MidPoint(pair) == Vec((pair[1].x + pair[2].x) \div 2, (pair[1].y + pair[2].y) \div 2)

(* no gesture, no pan, no inertial velocity *)
AtRest(c) ==
    /\ ~c.currentlyMoving /\ ~c.currentlyPinching
    /\ c.currentPan = Vec(0, 0) /\ c.desiredPan = Vec(0, 0)
    /\ c.touchPostMoveVelocity = Vec(0, 0)

(* this step is a call of update() *)
UpdateReturns == \E dt \in Dts \cup FrameDts : camera' = update(camera, keysDown, dt)

(* this step is a call of update() that runs at least one fixed step *)
UpdateSteps ==
    \E dt \in Dts \cup FrameDts :
        /\ camera.cameraUpdateTimeBucket + Min(dt, maxDtMs * TimeUnit) > physicsStepSize
        /\ camera' = update(camera, keysDown, dt)

(* the grid error allowed where the code computes with doubles *)
GridSlack == 1 + 2

----------------------------------------------------------------------------
(* C1: when a mutating operation of the camera has returned (the           *)
(* constructor, update, onMouseWheel, onMouseMove, onTouchMove,            *)
(* deserialize), zoomLevel is within [getMinimumZoom(), getMaximumZoom()]. *)
C1_ZoomWithinLimits ==
    camera.zoomLevel >= MinimumZoom /\ camera.zoomLevel <= MaximumZoom

(* a pinch and an update have run and the zoom level sits on the upper limit *)
C1_Witness ==
    /\ camera.zoomLevel = MaximumZoom
    /\ camera.currentlyPinching
    /\ camera.cameraUpdateTimeBucket > 0

(* C2: after update(dt) has returned, cameraUpdateTimeBucket is strictly   *)
(* less than the physics step size, also for dt an exact multiple of it.   *)
C2_BucketBelowStep == camera.cameraUpdateTimeBucket < physicsStepSize

(* C3: an accepted drag start (left mouse button down, or a touchstart     *)
(* with one touch, not captured by the down pre-handler) made while        *)
(* desiredCenter is non-null leaves desiredCenter null.                    *)
C3_DragStartCancelsCentering ==
    [][\A pos \in ScreenPoints :
         ( /\ camera.desiredCenter # Null
           /\ \/ /\ checkPreventDoubleMouse(msSinceTouch)
                 /\ camera' = onMouseDown(camera, msSinceTouch, 1, pos, FALSE)
              \/ camera' = onTouchStart(camera, << pos >>, FALSE)
           /\ camera'.currentlyMoving )
         => camera'.desiredCenter = Null]_vars

(* C4: a pinch move whose two touch points coincide, or whose previous two *)
(* points coincided, leaves zoomLevel finite and within the zoom limits    *)
(* when onTouchMove returns.                                               *)
C4_DegeneratePinchKeepsZoom ==
    [][\A touches \in PinchPairs :
         ( /\ camera.currentlyPinching
           /\ camera.lastPinchPositions # Null
           /\ Coincide(touches) \/ Coincide(Val(camera.lastPinchPositions))
           /\ camera' = onTouchMove(camera, touches, FALSE) )
         => /\ camera'.zoomLevel < Huge
            /\ camera'.zoomLevel >= MinimumZoom
            /\ camera'.zoomLevel <= MaximumZoom]_vars

(* a pinch move to coincident points has been handled: the transient zoom  *)
(* level 0 was clamped to the lower limit (and the center was divided by it) *)
C4_Witness ==
    /\ camera.currentlyPinching
    /\ camera.lastPinchPositions # Null
    /\ Coincide(Val(camera.lastPinchPositions))
    /\ ~VIsFinite(camera.center)
    /\ camera.zoomLevel = MinimumZoom

(* C5: no input operation leaves center non-finite: center.x and center.y  *)
(* are finite after every pinch move, also one to coincident points.       *)
C5_CenterFinite == VIsFinite(camera.center)

(* C6: in the update() call in which a centering started by                *)
(* setDesiredCenter(P) completes (desiredCenter becomes null), center is   *)
(* within 1 / zoomLevel of P when the call returns.  Stated for the calls  *)
(* that start from a finite center.                                        *)
C6_CenteringEndsOnTarget ==
    [][( /\ VIsFinite(camera.center)
         /\ camera.desiredCenter # Null
         /\ Val(camera.desiredCenter) \in Targets
         /\ camera'.desiredCenter = Null
         /\ UpdateReturns )
       => VWithin(camera'.center, Val(camera.desiredCenter),
                  InverseZoom(camera'.zoomLevel))]_vars

(* C7: once a zoom target Z is set and no pinch is active, update() calls  *)
(* with dt > 0 eventually set desiredZoom to null, and the call that does  *)
(* returns with zoomLevel within 1e-4 of clamp(Z, minZoom, maxZoom).       *)
C7_ZoomAnimationEnds ==
    /\ [](camera.desiredZoom # Null /\ ~camera.currentlyPinching
            => <>(camera.desiredZoom = Null))
    /\ [][(camera.desiredZoom # Null /\ camera'.desiredZoom = Null)
            => Abs(camera'.zoomLevel
                   - clamp(Val(camera.desiredZoom), MinimumZoom, MaximumZoom)) * 10000
               <= zoomTolerancePer10000 * ZoomUnit]_vars

(* a zoom animation has ended with the zoom level on the upper limit *)
C7_Witness ==
    /\ camera.desiredZoom = Null
    /\ ~camera.currentlyPinching
    /\ camera.zoomLevel = MaximumZoom
    /\ camera.cameraUpdateTimeBucket > 0

(* C8: after setDesiredCenter(P), with no drag active and no further       *)
(* input, update() calls with dt > 0 eventually set desiredCenter to null, *)
(* whatever desiredPan, currentPan and touchPostMoveVelocity are.          *)
C8_CenteringEnds ==
    [](camera.desiredCenter # Null /\ ~camera.currentlyMoving
         => <>(camera.desiredCenter = Null))

(* C9: with the camera at rest (no gesture, no pan, no inertial velocity,  *)
(* no key held) and desiredCenter = P, an update() that runs a step leaves *)
(* center between its old value and P, and strictly closer to P unless the *)
(* animation ended in that call.                                           *)
C9_CenteringApproaches ==
    [][( /\ AtRest(camera)
         /\ keysDown = {}
         /\ camera.desiredCenter # Null
         /\ UpdateSteps )
       => LET P == Val(camera.desiredCenter)
          IN  /\ VIsFinite(camera'.center)
              /\ Between(camera'.center.x, camera.center.x, P.x)
              /\ Between(camera'.center.y, camera.center.y, P.y)
              /\ \/ camera'.desiredCenter = Null
                 \/ VLengthSq(VDirection(camera'.center, P))
                      < VLengthSq(VDirection(camera.center, P))]_vars

(* C10: a pinch move handled while currentlyPinching multiplies zoomLevel  *)
(* by newDistance / oldDistance, and the world point that was under the    *)
(* previous midpoint of the two touches is under the new midpoint when     *)
(* onTouchMove returns, for every starting zoomLevel within the limits.    *)
C10_PinchScalesAboutPivot ==
    [][\A touches \in PinchPairs :
         ( /\ camera.currentlyPinching
           /\ camera.lastPinchPositions # Null
           /\ VDistance(Val(camera.lastPinchPositions)[1],
                        Val(camera.lastPinchPositions)[2]) > 0
           /\ camera' = onTouchMove(camera, touches, FALSE) )
         => LET last == Val(camera.lastPinchPositions)
                pivot == screenToWorld(camera, MidPoint(last))
                after == screenToWorld(camera', MidPoint(touches))
            IN  /\ camera'.zoomLevel
                     = Round(camera.zoomLevel * VDistance(touches[1], touches[2]),
                             VDistance(last[1], last[2]))
                /\ VIsFinite(pivot) /\ VIsFinite(after)
                /\ Abs(after.x - pivot.x) <= GridSlack
                /\ Abs(after.y - pivot.y) <= GridSlack]_vars

(* C11: with zoom level, centre and viewport unchanged, screenToWorld and
   worldToScreen are inverse to each other: a screen point taken to the
   world and back is the same screen point, and a world point taken to the
   screen and back is the same world point (up to the grid) *)
C11_RoundTrip ==
    /\ \A p \in ScreenPoints :
           VWithin(worldToScreen(camera, screenToWorld(camera, p)),
                   Vec(p.x * WorldUnit, p.y * WorldUnit), GridSlack)
    /\ \A w \in Targets :
           VWithin(screenToWorldAt(camera, worldToScreen(camera, w)), w, GridSlack)

(* C12: within every fixed step executed by update() the channel updates
   run in one fixed order.  As the code calls them: inertial pan and
   programmatic pan blend (internalUpdatePanning), zoom blend, centering,
   shake decay, keyboard force *)
C12_ChannelOrder ==
    camera.channelsRun \in { << >>,
                             << "internalUpdatePanning", "internalUpdateZooming",
                                "internalUpdateCentering", "internalUpdateShake",
                                "internalUpdateKeyboardForce" >> }

(* an update() has executed a fixed step *)
C12_Witness == Len(camera.channelsRun) = 5

(* C12 as stated: shake decay, inertial pan, programmatic pan blend, zoom
   blend, centering, keyboard force *)
C12_ShakeDecayFirst ==
    camera.channelsRun \in { << >>,
                             << "internalUpdateShake", "internalUpdatePanning",
                                "internalUpdateZooming", "internalUpdateCentering",
                                "internalUpdateKeyboardForce" >> }

(* C13: a centering target is set only while no drag is active: never
   desiredCenter non-null together with currentlyMoving, after any sequence
   of setDesiredCenter, centerOnMap, drag start, drag move, drag end and
   update *)
C13_NoTargetWhileDragging ==
    ~(camera.desiredCenter # Null /\ camera.currentlyMoving)

(* C14: currentlyMoving and currentlyPinching are never true together,
   after any sequence of operations, a mouse press or a single-touch start
   arriving during a pinch included *)
C14_DragOrPinch ==
    ~(camera.currentlyMoving /\ camera.currentlyPinching)

(* C15: while a drag or a pinch is active no update() changes center
   through the centering animation and none changes zoomLevel through the
   zoom animation, in particular not when desiredCenter is set during a
   pinch.  With no key held and no keyboard force left, no other channel
   moves center during a gesture *)
C15_GestureSuspendsAnimations ==
    [][(/\ camera.currentlyMoving \/ camera.currentlyPinching
        /\ keysDown = {} /\ camera.keyboardForce = Vec(0, 0)
        /\ UpdateReturns)
       => (camera'.center = camera.center /\ camera'.zoomLevel = camera.zoomLevel)]_vars

(* C16: a touchend or touchcancel event with zero changed touches is
   handled without throwing: onTouchEnd returns normally and leaves the
   camera as it was *)
C16_EmptyTouchEndReturns ==
    [][(TouchEndCalled /\ lastCall'.touches = 0)
       => (~lastCall'.threw /\ camera' = camera)]_vars

(* C17: whenever an operation sets desiredZoom (the mouse wheel, the zoom
   key bindings), desiredZoom is within the zoom limits when the operation
   returns: a non-null desiredZoom is never outside the limits *)
C17_DesiredZoomWithinLimits ==
    camera.desiredZoom # Null
        => (Val(camera.desiredZoom) >= MinimumZoom /\ Val(camera.desiredZoom) <= MaximumZoom)

(* C18: the renderer-facing queries are read-only: transform(context),
   getVisibleRect(), screenToWorld, worldToScreen and isWorldPointOnScreen
   leave every field of the camera unchanged, in every reachable state *)
C18_QueriesReadOnly ==
    [][(Transform \/ Query) => camera' = camera]_vars

(* how often the last call dispatched the signal *)
Dispatched(signal) ==
    Cardinality({i \in DOMAIN lastCall.dispatched : lastCall.dispatched[i] = signal})

(* C19: every release or cancel event (mouseup, mouseout, touchend,
   touchcancel) delivered while a drag or a pinch is active ends the
   gesture exactly once: afterwards both gesture flags are false and
   USER_INTERACT_TOUCHEND has been dispatched once; a release delivered
   while no gesture is active dispatches it no more *)
C19_ReleaseEndsGestureOnce ==
    [][(MouseUpCalled \/ TouchEndCalled)
       => IF camera.currentlyMoving \/ camera.currentlyPinching
          THEN /\ ~camera'.currentlyMoving /\ ~camera'.currentlyPinching
               /\ Dispatched("USER_INTERACT_TOUCHEND")' = 1
          ELSE Dispatched("USER_INTERACT_TOUCHEND")' = 0]_vars

(* C20: a mousedown, mousemove or mouseup less than 1000 ms after the last
   touch event changes no camera field and dispatches no pre or post
   handler; at 1000 ms or more the event is handled normally: the press
   resets the velocity and reaches the down pre-handler, the move does what
   the move handler does, the release ends the gesture and reaches the up
   post-handler *)
C20_MouseIgnoredAfterTouch ==
    [][(/\ lastCall'.op \in {"onMouseDown", "onMouseMove", "onMouseUp"}
        /\ MouseDownCalled \/ MouseMoveCalled \/ MouseUpCalled)
       => IF msSinceTouch < 1000
          THEN camera' = camera /\ lastCall'.dispatched = << >>
          ELSE /\ MouseDownCalled => /\ Dispatched("downPreHandler")' = 1
                                     /\ camera'.touchPostMoveVelocity = Vec(0, 0)
               /\ MouseUpCalled => /\ Dispatched("upPostHandler")' = 1
                                   /\ ~camera'.currentlyMoving /\ ~camera'.currentlyPinching
               /\ MouseMoveCalled =>
                     \E which \in {0, 1}, pos \in ScreenPoints, captured \in BOOLEAN :
                         IF which = 1
                         THEN /\ camera' = clampZoomLevel(
                                     combinedSingleTouchMoveHandler(camera, pos, captured))
                              /\ Dispatched("movePreHandler")' = 1
                         ELSE /\ camera' = clampZoomLevel(camera)
                              /\ lastCall'.dispatched = << >>]_vars

(* a mouseup 999 ms after the start of a touch drag was ignored: the drag
   is still active *)
C20_Witness ==
    /\ lastCall.op = "onMouseUp"
    /\ msSinceTouch = 999
    /\ camera.currentlyMoving

(* C21: a touchstart with two touch points sets currentlyPinching and
   clears currentlyMoving in the same call; after the touchend that
   follows it, a touchmove with a single touch point does not move center:
   drag mode is not resumed *)
C21_PinchDoesNotResumeDrag ==
    [][/\ (TouchStartCalled /\ lastCall'.touches = 2)
           => (camera'.currentlyPinching /\ ~camera'.currentlyMoving)
       /\ ( /\ lastCall.op = "onTouchEnd"
            /\ lastCall.before # << >>
            /\ lastCall.before[1] = << "onTouchStart", 2 >>
            /\ TouchMoveCalled /\ lastCall'.touches = 1 )
           => (camera'.center = camera.center /\ ~camera'.currentlyMoving)]_vars

(* an uncaptured single-touch move arrived after a two-touch start and its
   touchend *)
C21_Witness ==
    /\ lastCall.op = "onTouchMove" /\ lastCall.touches = 1
    /\ lastCall.dispatched = << "movePreHandler" >>
    /\ lastCall.before = << << "onTouchEnd", 1 >>, << "onTouchStart", 2 >> >>

(* this step leaves the fields a press writes as they were *)
PressFieldsKept ==
    /\ camera'.currentlyMoving = camera.currentlyMoving
    /\ camera'.lastMovingPosition = camera.lastMovingPosition
    /\ camera'.didMoveSinceTouchStart = camera.didMoveSinceTouchStart
    /\ camera'.touchPostMoveVelocity = camera.touchPostMoveVelocity
    /\ camera'.center = camera.center

(* this step leaves the fields a drag move writes as they were *)
MoveFieldsKept ==
    /\ camera'.center = camera.center
    /\ camera'.touchPostMoveVelocity = camera.touchPostMoveVelocity
    /\ camera'.desiredCenter = camera.desiredCenter

(* C22: when the down pre-handler returns STOP_PROPAGATION for a press
   (left mouse button or single touch start) the camera does none of its
   own handling: currentlyMoving, lastMovingPosition,
   didMoveSinceTouchStart, touchPostMoveVelocity and center are unchanged;
   a move captured by the move pre-handler leaves center,
   touchPostMoveVelocity and desiredCenter unchanged *)
C22_CapturedEventNotHandled ==
    [][\A pos \in ScreenPoints :
         /\ ( /\ MouseDown /\ checkPreventDoubleMouse(msSinceTouch)
              /\ camera' = onMouseDown(camera, msSinceTouch, 1, pos, TRUE) ) => PressFieldsKept
         /\ ( TouchStart /\ camera' = onTouchStart(camera, << pos >>, TRUE) ) => PressFieldsKept
         /\ ( /\ MouseMove /\ checkPreventDoubleMouse(msSinceTouch)
              /\ camera' = onMouseMove(camera, msSinceTouch, 1, pos, TRUE) ) => MoveFieldsKept
         /\ ( TouchMove /\ camera' = onTouchMove(camera, << pos >>, TRUE) ) => MoveFieldsKept]_vars

(* frame times a and b with a + b <= 33 ms as << a, b >>, in time units *)
FrameSplits == { << physicsStepSize, physicsStepSize >>, << 10, 20 >>,
                 << 4 * physicsStepSize, 3 * physicsStepSize >>, << 99, 99 >> }

(* the fields of the code agree *)
SameFields(c, d) == [c EXCEPT !.channelsRun = << >>] = [d EXCEPT !.channelsRun = << >>]

(* C23: frame-rate independence: for a and b with a + b <= 33 ms and no
   input between the calls, update(a) followed by update(b) leaves the
   camera in the same state as a single update(a + b), from every
   reachable state *)
C23_FrameRateIndependent ==
    \A split \in FrameSplits :
        SameFields(update(update(camera, keysDown, split[1]), keysDown, split[2]),
                   update(camera, keysDown, split[1] + split[2]))

(* C24: update(dt) with dt > 33 has exactly the effect of update(33), and
   one call of update() executes at most 8 fixed steps whatever dt is: the
   bucket takes up what was added and gives back one step size per step *)
C24_BacklogBounded ==
    [][\A dt \in Dts \cup FrameDts :
         camera' = update(camera, keysDown, dt)
         => /\ dt > maxDtMs * TimeUnit
                 => camera' = update(camera, keysDown, maxDtMs * TimeUnit)
            /\ camera.cameraUpdateTimeBucket + Min(dt, maxDtMs * TimeUnit)
                   - camera'.cameraUpdateTimeBucket <= 8 * physicsStepSize]_vars

(* the second of two calls update(dt) with dt >= 33 from construction has
   returned: it ran 8 steps, the first 7 *)
C24_Witness ==
    /\ opsLeft = MaxOps - 2
    /\ camera.cameraUpdateTimeBucket = 2 * maxDtMs * TimeUnit - (7 + 8) * physicsStepSize

(* C25: after cleanup() none of the event listeners the camera registered
   during construction remains registered, on any target it attached to *)
C25_CleanupRemovesAllListeners == [][Cleanup => listeners' = {}]_vars

(* a <= b on doubles *)
FLeq(a, b) == a # NaN /\ b # NaN /\ a <= b

(* transform() maps the world point inside the render surface *)
OnSurface(c, world) ==
    LET screen == transformed(c, world)
    IN  /\ FLeq(0, screen.x) /\ FLeq(screen.x, gameWidth * WorldUnit)
        /\ FLeq(0, screen.y) /\ FLeq(screen.y, gameHeight * WorldUnit)

(* the rectangle, edges included, contains the world point *)
Contains(rect, world) ==
    /\ FLeq(rect.left, world.x) /\ FLeq(world.x, rect.right)
    /\ FLeq(rect.top, world.y) /\ FLeq(world.y, rect.bottom)

(* world points at, within and one world unit beyond the exact viewport edges *)
EdgePoints(c) ==
    LET xs == {getViewportLeft(c), getViewportRight(c), c.center.x,
               FSub(getViewportLeft(c), WorldUnit), FAdd(getViewportRight(c), WorldUnit)}
        ys == {getViewportTop(c), getViewportBottom(c), c.center.y,
               FSub(getViewportTop(c), WorldUnit), FAdd(getViewportBottom(c), WorldUnit)}
    IN  {Vec(x, y) : x \in xs, y \in ys}

(* C26: getVisibleRect() contains every world point that transform() maps
   inside the render surface [0, gameWidth] x [0, gameHeight]; its left and
   top are the floor and its right and bottom the ceil of the exact
   viewport edges *)
C26_VisibleRectNeverUnderCulls ==
    LET rect == getVisibleRect(camera)
    IN  /\ \A world \in EdgePoints(camera) :
              OnSurface(camera, world) => Contains(rect, world)
        /\ rect.left = Math_floor(getViewportLeft(camera))
        /\ rect.top = Math_floor(getViewportTop(camera))
        /\ rect.right = Math_ceil(getViewportRight(camera))
        /\ rect.bottom = Math_ceil(getViewportBottom(camera))

(* a query after a shake: no exact edge is a whole number and the corners of
   the viewport are on the surface *)
C26_Witness ==
    /\ opsLeft < MaxOps
    /\ camera.currentShake.x # 0
    /\ \A edge \in {getViewportLeft(camera), getViewportRight(camera),
                     getViewportTop(camera), getViewportBottom(camera)} :
           IsFinite(edge) /\ edge % WorldUnit # 0
    /\ OnSurface(camera, Vec(getViewportLeft(camera), getViewportTop(camera)))
    /\ OnSurface(camera, Vec(getViewportRight(camera), getViewportBottom(camera)))

(* this step is a drag move at pos that neither the move pre-handler nor
   the double-mouse check stops, delivered while currentlyMoving *)
DragMoveAccepted(pos) ==
    /\ camera.currentlyMoving
    /\ lastCall'.dispatched = << "movePreHandler", "USER_INTERACT_MOVE" >>
    /\ \/ MouseMoveCalled /\ camera' = onMouseMove(camera, msSinceTouch, 1, pos, FALSE)
       \/ TouchMoveCalled /\ camera' = onTouchMove(camera, << pos >>, FALSE)

(* (lastMovingPosition - pos) / zoomLevel *)
DragDelta(c, pos) ==
    LET last == Val(c.lastMovingPosition)
    IN  Vec(Round((last.x - pos.x) * WorldUnit * ZoomUnit, c.zoomLevel),
            Round((last.y - pos.y) * WorldUnit * ZoomUnit, c.zoomLevel))

(* C27: an accepted drag move while currentlyMoving adds
   (lastMovingPosition - pos) / zoomLevel to center, sets lastMovingPosition
   to pos and leaves desiredCenter null; the world point under the pointer
   at the previous sample is under the pointer at the new sample *)
C27_DragMoveFollowsPointer ==
    [][\A pos \in ScreenPoints :
         DragMoveAccepted(pos)
         => /\ camera'.center = VAdd(camera.center, DragDelta(camera, pos))
            /\ camera'.lastMovingPosition = Some(pos)
            /\ camera'.desiredCenter = Null
            /\ VWithin(screenToWorld(camera, Val(camera.lastMovingPosition)),
                       screenToWorld(camera', pos), GridSlack)]_vars

(* C28: setDesiredCenter(p) sets desiredCenter to a copy of p and
   currentlyMoving to false in the same call; drag-move events arriving
   afterwards do not change center until a new drag start is accepted:
   currentlyMoving stays false until a press is delivered, and a drag move
   delivered while it is false leaves center as it is *)
C28_CenteringCancelsDrag ==
    [][/\ \A p \in Targets :
             (lastCall' = lastCall /\ SetDesiredCenter /\ camera' = setDesiredCenter(camera, p))
             => (camera'.desiredCenter = Some(p) /\ ~camera'.currentlyMoving)
       /\ (~camera.currentlyMoving /\ camera'.currentlyMoving)
             => (MouseDownCalled \/ TouchStartCalled)
       /\ ( /\ ~camera.currentlyMoving
            /\ lastCall'.op \in {"onMouseMove", "onTouchMove"}
            /\ MouseMoveCalled \/ (TouchMoveCalled /\ lastCall'.touches = 1) )
             => camera'.center = camera.center]_vars

(* a mouse move that follows an accepted press, delivered after
   setDesiredCenter() cancelled the drag *)
C28_Witness ==
    /\ lastCall.op = "onMouseMove"
    /\ lastCall.dispatched = << "movePreHandler" >>
    /\ lastCall.before = << << "onMouseDown", 0 >> >>
    /\ opsLeft = MaxOps - 3
    /\ camera.lastMovingPosition # Null
    /\ camera.desiredCenter # Null
    /\ ~camera.currentlyMoving

(* C29: held movement keys do not change center in any update step during
   which a drag is active or desiredCenter is non-null when the keyboard
   channel runs: the channel leaves such a camera as it is, and an update()
   during a drag, or one that returns with desiredCenter still set (update
   never sets it, so it was set in every step), returns what it returns
   with no key held *)
C29_KeysIgnoredWhileDraggingOrCentering ==
    [][\A dt \in Dts :
         ( /\ keysDown # {}
           /\ camera.currentlyMoving \/ camera'.desiredCenter # Null
           /\ Update /\ camera' = update(camera, keysDown, dt) )
         => /\ SameFields(camera', update(camera, {}, dt))
            /\ internalUpdateKeyboardForce(camera', keysDown) = camera']_vars

(* an update() of several steps returned with a key held during a drag *)
C29_Witness ==
    /\ keysDown # {}
    /\ camera.currentlyMoving
    /\ opsLeft = MaxOps - 3
    /\ camera.cameraUpdateTimeBucket = 100 - 3 * physicsStepSize
    /\ camera.channelsRun # << >>
    /\ camera.center = constructed.center

(* what one call of the keyboard channel adds to center with these keys held *)
KeyboardContribution(c, keys) ==
    VDirection(c.center, internalUpdateKeyboardForce(c, keys).center)

(* the bindings held have a direction: they do not cancel on both axes *)
HasDirection(keys) ==
    ("right" \in keys) # ("left" \in keys) \/ ("down" \in keys) # ("up" \in keys)

(* C30: in every update step the keyboard contribution to center is
   moveAmount times the unit vector of the held movement bindings: its
   length is the same whether one key or a diagonal is held (moveAmount, the
   length with one key), and opposite keys cancel to zero *)
C30_KeyboardContributionIsUnitVector ==
    (~camera.currentlyMoving /\ camera.desiredCenter = Null /\ VIsFinite(camera.center))
    => LET moved == KeyboardContribution(camera, keysDown)
           moveAmount == ISqrt(VLengthSq(KeyboardContribution(camera, {"right"})))
       IN  IF HasDirection(keysDown)
           THEN /\ VLengthSq(moved) <= (moveAmount + GridSlack) * (moveAmount + GridSlack)
                /\ VLengthSq(moved) >= (moveAmount - GridSlack) * (moveAmount - GridSlack)
           ELSE moved = Vec(0, 0)

(* length(), on the world grid *)
VLength(v) == ISqrt(VLengthSq(v))

(* C31: the inertial velocity is added to center only in update steps where
   neither currentlyMoving nor currentlyPinching is true; whenever it is
   added its magnitude is at most velocityMax; its magnitude after any
   update step is 0.98 times the previous magnitude or the clamp value *)
C31_InertiaOnlyWhenIdleAndClamped ==
    LET after == internalUpdatePanning(camera)
        velocity == after.touchPostMoveVelocity
        \* the step with no velocity: what the pan alone adds
        panOnly == internalUpdatePanning([camera EXCEPT !.touchPostMoveVelocity = Vec(0, 0)])
    IN  /\ (camera.currentlyMoving \/ camera.currentlyPinching)
              => after.center = camera.center
        /\ after.center # panOnly.center
              => /\ ~camera.currentlyMoving /\ ~camera.currentlyPinching
                 /\ VLengthSq(velocity) <= (velocityMax * WorldUnit) * (velocityMax * WorldUnit)
        /\ \/ Abs(VLength(velocity) * 100 - VLength(camera.touchPostMoveVelocity) * velocityFadePct)
                 <= GridSlack * 100
           \/ Abs(VLength(velocity) - velocityMax * WorldUnit) <= GridSlack

(* update() ran steps after a fast drag ended: the first step clamped the
   velocity of 40 per step to 20, the next two faded it *)
C31_Witness ==
    /\ ~camera.currentlyMoving /\ ~camera.currentlyPinching
    /\ camera.channelsRun # << >>
    /\ Abs(camera.touchPostMoveVelocity.x) = 1920
    /\ camera.touchPostMoveVelocity.y = 0

(* previous * velocitySmoothing + delta * (1 - velocitySmoothing) *)
Smoothed(previous, delta) ==
    Vec(Round(previous.x * velocitySmoothingPct + delta.x * (100 - velocitySmoothingPct), 100),
        Round(previous.y * velocitySmoothingPct + delta.y * (100 - velocitySmoothingPct), 100))

(* C32: each accepted drag move sets touchPostMoveVelocity to 0.5 * previous
   + 0.5 * delta; the release that ends the drag leaves it as it is, so it
   seeds the inertia; a new press (a mouse down that the double-mouse check
   lets pass, or a touch start) resets it to zero *)
C32_DragEndSeedsVelocity ==
    [][/\ \A pos \in ScreenPoints :
             (lastCall'.op \in {"onMouseMove", "onTouchMove"} /\ DragMoveAccepted(pos))
             => camera'.touchPostMoveVelocity
                    = Smoothed(camera.touchPostMoveVelocity, DragDelta(camera, pos))
       /\ (lastCall'.op \in {"onMouseUp", "onTouchEnd"} /\ (MouseUpCalled \/ TouchEndCalled))
             => camera'.touchPostMoveVelocity = camera.touchPostMoveVelocity
       /\ ( /\ lastCall'.op \in {"onMouseDown", "onTouchStart"}
            /\ (MouseDownCalled /\ checkPreventDoubleMouse(msSinceTouch)) \/ TouchStartCalled )
             => camera'.touchPostMoveVelocity = Vec(0, 0)]_vars

(* a mouse drag that moved has just been released with its velocity kept *)
C32_Witness ==
    /\ lastCall.op = "onMouseUp"
    /\ lastCall.dispatched = << "USER_INTERACT_TOUCHEND", "upPostHandler" >>
    /\ lastCall.before # << >>
    /\ lastCall.before[1] = << "onMouseMove", 0 >>
    /\ camera.touchPostMoveVelocity # Vec(0, 0)

(* C33: after a two-touch touchmove processed while currentlyPinching,
   desiredZoom is null; a two-touch touchmove while not pinching changes
   neither zoomLevel, center nor desiredZoom *)
C33_PinchCancelsDesiredZoom ==
    [][\A touches \in PinchPairs :
         (msSinceTouch' = 0 /\ TouchMove /\ camera' = onTouchMove(camera, touches, FALSE))
         => IF camera.currentlyPinching
            THEN camera'.desiredZoom = Null
            ELSE /\ camera'.zoomLevel = camera.zoomLevel
                 /\ camera'.center = camera.center
                 /\ camera'.desiredZoom = camera.desiredZoom]_vars

(* C34: in a zoom-animation step (desiredZoom non-null, no pinch) with
   |zoomLevel - desiredZoom| > 1e-4, zoomLevel becomes zoomLevel * f +
   desiredZoom * (1 - f) with f = 0.94 when zoomLevel < desiredZoom and
   f = 0.9 when zoomLevel > desiredZoom: the gap strictly shrinks and
   zoomLevel never crosses desiredZoom; when the gap is below 1e-4 the step
   sets desiredZoom to null and leaves zoomLevel unchanged *)
C34_ZoomBlend ==
    (camera.desiredZoom # Null /\ ~camera.currentlyPinching)
    => LET after == internalUpdateZooming(camera)
           zoom == camera.zoomLevel
           desired == Val(camera.desiredZoom)
           f == IF zoom < desired THEN 94 ELSE 90
       IN  IF Abs(zoom - desired) * 10000 > ZoomUnit
           THEN /\ Abs(after.zoomLevel * 100 - (zoom * f + desired * (100 - f))) <= 50
                /\ Abs(after.zoomLevel - desired) < Abs(zoom - desired)
                /\ Between(after.zoomLevel, zoom, desired)
                /\ after.desiredZoom = camera.desiredZoom
           ELSE IF Abs(zoom - desired) * 10000 < ZoomUnit
           THEN after.desiredZoom = Null /\ after.zoomLevel = zoom
           ELSE TRUE

(* frames have run and the zoom animation is still on its way up *)
C34_Witness ==
    /\ camera.desiredZoom # Null /\ ~camera.currentlyPinching
    /\ camera.channelsRun # << >>
    /\ camera.zoomLevel < Val(camera.desiredZoom) - 1000
    /\ internalUpdateZooming(camera).zoomLevel > camera.zoomLevel

(* the camera with no shake *)
Unshaken(c) == [c EXCEPT !.currentShake = Vec(0, 0)]

(* the operation gives the same fields, currentShake apart, with and
   without the shake of the camera *)
ShakeBlind(Op(_)) == Unshaken(Op(camera)) = Unshaken(Op(Unshaken(camera)))

(* C35: addScreenShake(amount) and the per-step shake decay leave center,
   zoomLevel, desiredCenter, desiredZoom, pan, velocity and the gesture
   flags unchanged, and the center and zoomLevel (and every other field but
   currentShake) that an operation produces are the same whatever
   currentShake is *)
C35_ShakeNeverWritesCenter ==
    /\ \A amount \in ShakeAmounts, random1 \in Randoms, random2 \in Randoms :
          Unshaken(addScreenShake(camera, amount, random1, random2)) = Unshaken(camera)
    /\ Unshaken(internalUpdateShake(camera)) = Unshaken(camera)
    /\ \A dt \in Dts : ShakeBlind(LAMBDA c : update(c, keysDown, dt))
    /\ \A pos \in ScreenPoints :
          /\ ShakeBlind(LAMBDA c : onMouseDown(c, msSinceTouch, 1, pos, FALSE))
          /\ ShakeBlind(LAMBDA c : onMouseMove(c, msSinceTouch, 1, pos, FALSE))
          /\ ShakeBlind(LAMBDA c : onTouchStart(c, << pos >>, FALSE))
          /\ ShakeBlind(LAMBDA c : onTouchMove(c, << pos >>, FALSE))
    /\ \A touches \in PinchPairs :
          /\ ShakeBlind(LAMBDA c : onTouchStart(c, touches, FALSE))
          /\ ShakeBlind(LAMBDA c : onTouchMove(onTouchStart(c, touches, FALSE),
                                               << Vec(150, 300), Vec(250, 300) >>, FALSE))
    /\ ShakeBlind(LAMBDA c : onMouseUp(c, msSinceTouch))
    /\ ShakeBlind(LAMBDA c : onTouchEnd(c, 1))
    /\ \A sign \in {0 - 1, 1} : ShakeBlind(LAMBDA c : onMouseWheel(c, sign))
    /\ \A pct \in {120, 80} : ShakeBlind(LAMBDA c : zoomKey(c, pct))
    /\ \A p \in Targets : ShakeBlind(LAMBDA c : setDesiredCenter(c, p))
    /\ \A pan \in Pans : ShakeBlind(LAMBDA c : setPan(c, pan))
    /\ ShakeBlind(clearAnimations)
    /\ ShakeBlind(cancelAllInteractions)
    /\ ShakeBlind(transform)

(* frames have run on a shaken camera whose center a drag has moved *)
C35_Witness ==
    /\ camera.currentShake # Vec(0, 0)
    /\ camera.channelsRun # << >>
    /\ camera.center # constructed.center
    /\ camera.lastMovingPosition # Null

(* C36: between an accepted press and its release, while every drag move
   had zero displacement (or there was none), didMoveSinceTouchStart stays
   false and isCurrentlyInteracting() returns false; the first move with
   non-zero displacement makes both true, and they stay true until the
   release (or the next press) *)
C36_TapIsNotAnInteraction ==
    [][/\ (camera'.currentlyMoving /\ ~camera'.didMoveSinceTouchStart)
             => ~isCurrentlyInteracting(camera')
       /\ \A pos \in ScreenPoints :
             (lastCall'.op \in {"onMouseMove", "onTouchMove"} /\ DragMoveAccepted(pos))
             => IF DragDelta(camera, pos) = Vec(0, 0)
                THEN camera'.didMoveSinceTouchStart = camera.didMoveSinceTouchStart
                ELSE camera'.didMoveSinceTouchStart /\ isCurrentlyInteracting(camera')
       /\ ( /\ camera.currentlyMoving /\ camera.didMoveSinceTouchStart
            /\ lastCall'.op \notin {"onMouseUp", "onTouchEnd", "onMouseDown", "onTouchStart"} )
             => (camera'.didMoveSinceTouchStart /\ isCurrentlyInteracting(camera'))]_vars

(* C37: whenever viewportWillChange() returns false, the next update(dt)
   leaves center and zoomLevel unchanged, in every reachable state
   (a pan set by setPan, held movement keys and a small residual inertial
   velocity included) *)
C37_ViewportWillChangePredicts ==
    ~viewportWillChange(camera)
    => \A dt \in Dts :
          /\ update(camera, keysDown, dt).center = camera.center
          /\ update(camera, keysDown, dt).zoomLevel = camera.zoomLevel

(* no target, no pan, no inertial velocity, no gesture *)
Quiescent(c) ==
    /\ c.desiredCenter = Null /\ c.desiredZoom = Null
    /\ c.desiredPan = Vec(0, 0) /\ c.currentPan = Vec(0, 0)
    /\ c.touchPostMoveVelocity = Vec(0, 0)
    /\ ~c.currentlyMoving /\ ~c.currentlyPinching

(* C38: after clearAnimations() desiredCenter and desiredZoom are null, pan
   and inertial velocity are zero and both gesture flags are false, and
   clearAnimations() leaves center and zoomLevel unchanged; from such a
   camera, with no movement key held, update(dt) leaves center and
   zoomLevel unchanged and the camera as quiescent, so every subsequent
   update does *)
C38_ClearAnimationsQuiescent ==
    [][/\ ClearAnimations
             => /\ Quiescent(camera')
                /\ camera'.center = camera.center
                /\ camera'.zoomLevel = camera.zoomLevel
       /\ (Quiescent(camera') /\ keysDown' = {} /\ (Quiescent(camera) \/ ClearAnimations))
             => \A dt \in Dts :
                   LET after == update(camera', {}, dt)
                   IN  /\ after.center = camera'.center
                       /\ after.zoomLevel = camera'.zoomLevel
                       /\ Quiescent(after)]_vars

(* clearAnimations() ended a pinch that had moved the center, and frames
   have run *)
C38_Witness ==
    /\ Quiescent(camera)
    /\ camera.lastPinchPositions # Null
    /\ camera.center # constructed.center
    /\ camera.channelsRun # << >>

(* the statements of a drag move and of a pinch move that read the last
   sample are reached: the early returns of combinedSingleTouchMoveHandler
   and the conditions of onTouchMove *)
ReadsLastMovingPosition(c, captured) == ~captured /\ c.currentlyMoving

ReadsLastPinchPositions(c, touches) == Len(touches) = 2 /\ c.currentlyPinching

(* C39: in every reachable state currentlyMoving implies lastMovingPosition
   is non-null and currentlyPinching implies lastPinchPositions is non-null,
   so no drag move and no pinch move reads a null last sample, after any
   sequence of input events, setDesiredCenter, clearAnimations and
   cancelAllInteractions calls *)
C39_GestureFlagsHaveSamples ==
    /\ camera.currentlyMoving => camera.lastMovingPosition # Null
    /\ camera.currentlyPinching => camera.lastPinchPositions # Null
    /\ \A captured \in BOOLEAN :
          ReadsLastMovingPosition(camera, captured) => camera.lastMovingPosition # Null
    /\ \A touches \in {<< p >> : p \in ScreenPoints} \cup PinchPairs :
          ReadsLastPinchPositions(camera, touches) => camera.lastPinchPositions # Null

(* a press after a pinch moved the center: both flags are set and both
   samples are there *)
C39_Witness ==
    /\ camera.currentlyMoving /\ camera.currentlyPinching
    /\ camera.lastMovingPosition # Null /\ camera.lastPinchPositions # Null
    /\ camera.center # constructed.center

(* C40: while currentlyMoving is true, update(dt) never changes center:
   the inertial velocity, the programmatic pan, the centering and the
   keyboard movement are all suspended, each channel of a physics step
   leaving center as it is, whatever the pan, the velocity, the target and
   the keys held *)
C40_UpdateSuspendedWhileDragging ==
    camera.currentlyMoving
    => /\ internalUpdatePanning(camera).center = camera.center
       /\ internalUpdateCentering(camera).center = camera.center
       /\ internalUpdateKeyboardForce(camera, keysDown).center = camera.center
       /\ \A dt \in Dts :
             LET after == update(camera, keysDown, dt)
             IN  /\ after.center = camera.center
                 /\ after.currentlyMoving

(* a drag that moved the camera, with a pan, a residual velocity, a target
   and a movement key all present, after physics steps ran *)
C40_Witness ==
    /\ camera.currentlyMoving
    /\ camera.center # constructed.center
    /\ camera.desiredPan # Vec(0, 0)
    /\ camera.touchPostMoveVelocity # Vec(0, 0)
    /\ camera.desiredCenter # Null
    /\ keysDown # {}
    /\ camera.channelsRun # << >>

====
